---- MODULE Spec2Model ----
(***************************************************************************)
(* Multi-object PTZ tracking engine (core/multi_object_ptz_system.py).     *)
(*                                                                         *)
(* Units.  The source works on floats; the model uses fixed point:         *)
(*   - cx, cy, width, height, confidence, weights, zoom_speed,             *)
(*     movement_smoothing: hundredths (0.30 is 30);                        *)
(*   - areas (width*height), pan/tilt speeds, zoom levels, priorities,     *)
(*     distances: ten-thousandths ("E4", 0.25 is 2500);                    *)
(*   - velocities: hundredths of the frame per second;                     *)
(*   - time.time(): whole seconds; prediction_time: milliseconds.          *)
(* Divisions truncate toward zero (TruncDiv); square roots are floors.     *)
(*                                                                         *)
(* TrackedObject fields that the engine writes but never reads             *)
(* (movement_direction, acceleration, frames_lost, average_size,           *)
(* size_stability, shape_ratio, last_targeted_time, total_tracking_time)   *)
(* are not part of the state.                                              *)
(***************************************************************************)
EXTENDS Integers, Sequences, FiniteSets, TLC

VARIABLES
    now,                        \* time.time()
    multi_config,               \* MultiObjectConfig of the session
    state,                      \* TrackingState
    tracking_active,
    stop_tracking_event,
    tracking_thread,            \* index into threads of the last started worker, 0 = None
    threads,                    \* control-loop workers ever started: position and locals
    caller,                     \* position of the thread calling stop_tracking / cleanup
    detector,                   \* position of the thread calling update_detections
    tracked_objects,            \* Dict[int, TrackedObject]
    next_object_id,
    current_target_id,          \* 0 = None
    secondary_target_id,        \* 0 = None
    last_switch_time,
    current_follow_start_time,
    is_following_primary,
    switch_count,
    current_zoom_level,
    target_zoom_level,
    zoom_history,
    zoom_change_count,
    ptz_movement_history,
    current_pan_speed,
    current_tilt_speed,
    target_pan_speed,
    target_tilt_speed,
    total_detections_processed,
    successful_tracks,
    failed_tracks,
    emitted,                    \* observer callbacks invoked by the last step, in order
    dispatched,                 \* camera-driver calls invoked by the last step, in order
    last_call,                  \* the operation the last step performed, with its input
    obs                         \* what an observer of the callbacks and the driver remembers

vars == << now, multi_config, state, tracking_active, stop_tracking_event,
           tracking_thread, threads, caller, detector, tracked_objects,
           next_object_id,
           current_target_id, secondary_target_id, last_switch_time,
           current_follow_start_time, is_following_primary, switch_count,
           current_zoom_level, target_zoom_level, zoom_history, zoom_change_count,
           ptz_movement_history, current_pan_speed, current_tilt_speed,
           target_pan_speed, target_tilt_speed, total_detections_processed,
           successful_tracks, failed_tracks, emitted, dispatched, last_call, obs >>

(***************************************************************************)
(* Bounds of the model.                                                    *)
(***************************************************************************)
MaxTime == 4
MaxDetections == 4
MaxMoves == 2
MaxThreads == 1
HistMaxTime == 2
HistMaxDetections == 23
LifeMaxTime == 2
LifeMaxDetections == 2
LifeMaxMoves == 2
LifeMaxThreads == 2
RaceMaxTime == 4
RaceMaxDetections == 3
RaceMaxMoves == 3
RaceMaxThreads == 1
PanMaxDetections == 1
PanMaxMoves == 3
PanMaxThreads == 1
ZoomMaxDetections == 2
ZoomMaxMoves == 3
ZoomMaxThreads == 1
SelectMaxTime == 2
SelectMaxDetections == 3
SelectMaxMoves == 3
SelectMaxThreads == 1
AltMaxTime == 4
AltMaxDetections == 4
AltMaxMoves == 3
AltMaxThreads == 1
FaultMaxTime == 2
FaultMaxDetections == 3
FaultMaxMoves == 3
FaultMaxThreads == 1
InvalidMaxTime == 2
InvalidMaxDetections == 6
PredictMaxTime == 2
PredictMaxDetections == 6
PredictMaxMoves == 3
PredictMaxThreads == 1
ConfigMaxDetections == 3
ConfigMaxMoves == 2
ConfigMaxThreads == 1
MatchMaxTime == 1
MatchMaxDetections == 6
FilterMaxTime == 1
FilterMaxDetections == 4
BandMaxDetections == 2
BandMaxMoves == 4
BandMaxThreads == 1
MovesMaxTime == 1
MovesMaxDetections == 1
MovesMaxMoves == 102
MovesMaxThreads == 1
AbsorbMaxTime == 4
AbsorbMaxDetections == 2
AbsorbMaxMoves == 2
AbsorbMaxThreads == 1
DwellMaxTime == 4
DwellMaxDetections == 4
DwellMaxMoves == 3
DwellMaxThreads == 1

(***************************************************************************)
(* Program constants.                                                      *)
(***************************************************************************)
Epoch == 1000
MaxHistory == 20
RecentWindow == 5
FrameW == 1920
FrameH == 1080
JoinTimeout == 2
MaxMovementHistory == 100
KeptMovementHistory == 50
ZoomStepE4 == 1000
ZoomHysteresisE4 == 500
MatchGateSq == 100
MovingThresholdSq == 1
InitialZoomE4 == 5000

None == 0

DefaultConfig ==
    [ alternating_enabled      |-> TRUE,
      primary_follow_time      |-> 5,
      secondary_follow_time    |-> 3,
      min_switch_interval      |-> 1,
      max_switch_interval      |-> 30,
      confidence_weight        |-> 40,
      movement_weight          |-> 30,
      size_weight              |-> 20,
      proximity_weight         |-> 10,
      auto_zoom_enabled        |-> TRUE,
      target_object_ratio      |-> 2500,
      zoom_speed               |-> 30,
      min_zoom_level           |-> 0,
      max_zoom_level           |-> 10000,
      min_confidence_threshold |-> 50,
      max_objects_to_track     |-> 3,
      object_lifetime          |-> 3,
      min_object_size          |-> 100,
      max_object_size          |-> 8000,
      max_pan_speed            |-> 8000,
      max_tilt_speed           |-> 8000,
      movement_smoothing       |-> 50,
      prediction_enabled       |-> TRUE,
      prediction_time          |-> 100,
      adaptive_zoom            |-> TRUE ]

\* MultiObjectConfig.validate
ValidateNoLimit(cfg) ==
    /\ 0 <= cfg.primary_follow_time /\ cfg.primary_follow_time <= 60
    /\ 0 <= cfg.secondary_follow_time /\ cfg.secondary_follow_time <= 60
    /\ cfg.min_switch_interval > 0
    /\ (cfg.alternating_enabled \/ cfg.secondary_follow_time > 0)
    /\ cfg.min_zoom_level <= cfg.max_zoom_level

Validate(cfg) ==
    /\ 0 <= cfg.primary_follow_time /\ cfg.primary_follow_time <= 60
    /\ 0 <= cfg.secondary_follow_time /\ cfg.secondary_follow_time <= 60
    /\ cfg.min_switch_interval > 0
    /\ (cfg.alternating_enabled \/ cfg.secondary_follow_time > 0)
    /\ cfg.min_zoom_level <= cfg.max_zoom_level
    /\ 0 < cfg.max_objects_to_track /\ cfg.max_objects_to_track <= 10

(***************************************************************************)
(* Arithmetic helpers.                                                     *)
(***************************************************************************)
Abs(x) == IF x < 0 THEN -x ELSE x

Min2(a, b) == IF a <= b THEN a ELSE b

Max2(a, b) == IF a >= b THEN a ELSE b

\* float division a / b, truncated toward zero at the model's resolution
TruncDiv(a, b) == IF a >= 0 THEN a \div b ELSE -((-a) \div b)

RECURSIVE ISqrtIter(_, _, _)
ISqrtIter(n, lo, hi) ==
    IF lo >= hi THEN lo
    ELSE LET mid == (lo + hi + 1) \div 2
         IN IF mid * mid <= n THEN ISqrtIter(n, mid, hi)
            ELSE ISqrtIter(n, lo, mid - 1)

\* math.sqrt, floored
ISqrt(n) == ISqrtIter(n, 0, 20000)

RECURSIVE SumSeq(_)
SumSeq(s) == IF s = << >> THEN 0 ELSE Head(s) + SumSeq(Tail(s))

\* the ids of a dict in iteration (insertion) order; ids are inserted in increasing order
RECURSIVE SortedIds(_)
SortedIds(S) ==
    IF S = {} THEN << >>
    ELSE LET m == CHOOSE x \in S : \A y \in S : x <= y
         IN << m >> \o SortedIds(S \ {m})

KeepAt(s, i) == s

RemoveAt(s, i) == SubSeq(s, 1, i - 1) \o SubSeq(s, i + 1, Len(s))

\* s[-n:]
LastN(s, n) == IF Len(s) <= n THEN s ELSE SubSeq(s, Len(s) - n + 1, Len(s))

(***************************************************************************)
(* ObjectPosition.                                                         *)
(***************************************************************************)
ObjectPosition(det, t) ==
    [ cx |-> det.cx, cy |-> det.cy, width |-> det.width, height |-> det.height,
      confidence |-> det.confidence, timestamp |-> t ]

\* ObjectPosition.distance_to_center, E4
DistanceToCenterE4(cxE4, cyE4) ==
    ISqrt((cxE4 - 5000) * (cxE4 - 5000) + (cyE4 - 5000) * (cyE4 - 5000))

(***************************************************************************)
(* TrackedObject.                                                          *)
(***************************************************************************)
NewTrackedObject(id, t) ==
    [ id |-> id, positions |-> << >>, confidence_history |-> << >>,
      last_seen |-> 0, first_seen |-> t, frames_tracked |-> 0,
      priority_score |-> 0, is_moving |-> FALSE, movement_speed |-> 0,
      velocity_x |-> 0, velocity_y |-> 0, time_being_tracked |-> 0,
      is_primary_target |-> FALSE ]

\* the per-step velocities of _update_movement_analysis: one entry for each dt > 0
RECURSIVE StepVelocities(_, _)
StepVelocities(recent, i) ==
    IF i > Len(recent) THEN << >>
    ELSE LET dt == recent[i].timestamp - recent[i - 1].timestamp
             rest == StepVelocities(recent, i + 1)
         IN IF dt > 0
            THEN << << TruncDiv(recent[i].cx - recent[i - 1].cx, dt),
                       TruncDiv(recent[i].cy - recent[i - 1].cy, dt) >> >> \o rest
            ELSE rest

\* TrackedObject._update_movement_analysis
UpdateMovementAnalysis(o) ==
    IF Len(o.positions) < 2
    THEN [o EXCEPT !.is_moving = FALSE, !.movement_speed = 0]
    ELSE LET recent == LastN(o.positions, RecentWindow)
             vs == StepVelocities(recent, 2)
         IN IF vs = << >> THEN o
            ELSE LET vx == TruncDiv(SumSeq([k \in 1..Len(vs) |-> vs[k][1]]), Len(vs))
                     vy == TruncDiv(SumSeq([k \in 1..Len(vs) |-> vs[k][2]]), Len(vs))
                 IN [o EXCEPT !.velocity_x = vx, !.velocity_y = vy,
                              !.movement_speed = ISqrt((vx * vx + vy * vy) * 10000),
                              !.is_moving = (vx * vx + vy * vy > MovingThresholdSq)]

\* TrackedObject._update_tracking_stats
UpdateTrackingStats(o, t) == [o EXCEPT !.time_being_tracked = t - o.first_seen]

LimitHistoryOff(o) == o

\* the history limit of add_position
LimitHistory(o) ==
    IF Len(o.positions) > MaxHistory
    THEN [o EXCEPT !.positions = LastN(@, MaxHistory),
                   !.confidence_history = LastN(@, MaxHistory)]
    ELSE o

\* TrackedObject.add_position
AddPosition(o, pos, t) ==
    LET appended == [o EXCEPT !.positions = Append(@, pos),
                              !.confidence_history = Append(@, pos.confidence),
                              !.last_seen = t,
                              !.frames_tracked = @ + 1]
    IN UpdateTrackingStats(UpdateMovementAnalysis(LimitHistory(appended)), t)

\* TrackedObject.get_average_confidence, E4
AverageConfidenceE4(o) ==
    IF o.confidence_history = << >> THEN 0
    ELSE TruncDiv(SumSeq(o.confidence_history) * 100, Len(o.confidence_history))

\* TrackedObject.get_current_position (callers test for None through positions /= <<>>)
CurrentPosition(o) == o.positions[Len(o.positions)]

\* TrackedObject.get_object_size_ratio, E4: the area is divided by the frame's pixel area
ObjectSizeRatioE4(o) ==
    IF o.positions = << >> THEN 0
    ELSE LET pos == CurrentPosition(o)
         IN IF FrameW * FrameH > 0
            THEN TruncDiv(pos.width * pos.height, FrameW * FrameH)
            ELSE 0

PredictedPositionAlways(o, time_ahead) ==
    LET cur == CurrentPosition(o)
    IN [ cx |-> cur.cx * 100 + TruncDiv(o.velocity_x * 100 * time_ahead, 1000),
         cy |-> cur.cy * 100 + TruncDiv(o.velocity_y * 100 * time_ahead, 1000),
         width |-> cur.width, height |-> cur.height,
         confidence |-> cur.confidence * 80,
         timestamp_ms |-> cur.timestamp * 1000 + time_ahead ]

\* TrackedObject.get_predicted_position: the position in E4 coordinates
PredictedPosition(o, time_ahead) ==
    LET cur == CurrentPosition(o)
    IN IF ~o.is_moving
       THEN [ cx |-> cur.cx * 100, cy |-> cur.cy * 100,
              width |-> cur.width, height |-> cur.height,
              confidence |-> cur.confidence * 100,
              timestamp_ms |-> cur.timestamp * 1000 ]
       ELSE [ cx |-> cur.cx * 100 + TruncDiv(o.velocity_x * 100 * time_ahead, 1000),
              cy |-> cur.cy * 100 + TruncDiv(o.velocity_y * 100 * time_ahead, 1000),
              width |-> cur.width, height |-> cur.height,
              confidence |-> cur.confidence * 80,
              timestamp_ms |-> cur.timestamp * 1000 + time_ahead ]

IsLostInclusive(o, current_time, timeout) == (current_time - o.last_seen) >= timeout

\* TrackedObject.is_lost
IsLost(o, current_time, timeout) == (current_time - o.last_seen) > timeout

(***************************************************************************)
(* Observer callbacks and camera-driver calls.                             *)
(***************************************************************************)
Callback(cb, a, b, t) == [ cb |-> cb, a |-> a, b |-> b, at |-> t ]

DriverCall(cmd, x, y, t) == [ cmd |-> cmd, x |-> x, y |-> y, at |-> t ]

(***************************************************************************)
(* The tracker object (self) is passed through the methods below as one    *)
(* record of its fields, together with the callbacks emitted and the       *)
(* camera-driver calls made so far by the running handler.                 *)
(***************************************************************************)
Tracker ==
    [ tracked_objects |-> tracked_objects,
      next_object_id |-> next_object_id,
      current_target_id |-> current_target_id,
      secondary_target_id |-> secondary_target_id,
      last_switch_time |-> last_switch_time,
      current_follow_start_time |-> current_follow_start_time,
      is_following_primary |-> is_following_primary,
      switch_count |-> switch_count,
      current_zoom_level |-> current_zoom_level,
      target_zoom_level |-> target_zoom_level,
      zoom_history |-> zoom_history,
      zoom_change_count |-> zoom_change_count,
      ptz_movement_history |-> ptz_movement_history,
      current_pan_speed |-> current_pan_speed,
      current_tilt_speed |-> current_tilt_speed,
      target_pan_speed |-> target_pan_speed,
      target_tilt_speed |-> target_tilt_speed,
      successful_tracks |-> successful_tracks,
      failed_tracks |-> failed_tracks,
      emitted |-> << >>,
      dispatched |-> << >> ]

RemoveKey(objs, id) == [k \in (DOMAIN objs) \ {id} |-> objs[k]]

UpdateTargetFlagsKeepOld(E) ==
    [E EXCEPT !.tracked_objects =
        [k \in DOMAIN @ |->
            [@[k] EXCEPT !.is_primary_target = @ \/ (k = E.current_target_id)]]]

\* MultiObjectPTZTracker._update_target_flags
UpdateTargetFlags(E) ==
    [E EXCEPT !.tracked_objects =
        [k \in DOMAIN @ |-> [@[k] EXCEPT !.is_primary_target = (k = E.current_target_id)]]]

\* max(keys, key = priority_score): the first maximal key in iteration order
BestObjectId(objs) ==
    CHOOSE k \in DOMAIN objs :
        \A j \in DOMAIN objs :
            \/ objs[j].priority_score < objs[k].priority_score
            \/ (objs[j].priority_score = objs[k].priority_score /\ k <= j)

\* sorted(items, key = priority_score, reverse = True): a stable sort, so equal
\* scores keep the dict's order
RECURSIVE SortedByPriority(_, _)
SortedByPriority(objs, S) ==
    IF S = {} THEN << >>
    ELSE LET k == CHOOSE x \in S :
                    \A j \in S :
                        \/ objs[j].priority_score < objs[x].priority_score
                        \/ (objs[j].priority_score = objs[x].priority_score /\ x <= j)
         IN << k >> \o SortedByPriority(objs, S \ {k})

SelectNewTargetLateOld(E, t) ==
    IF DOMAIN E.tracked_objects = {}
    THEN [E EXCEPT !.current_target_id = None]
    ELSE LET best_obj_id == BestObjectId(E.tracked_objects)
         IN IF best_obj_id /= E.current_target_id
            THEN LET E1 == [E EXCEPT !.current_target_id = best_obj_id,
                                     !.current_follow_start_time = t,
                                     !.is_following_primary = TRUE]
                 IN [UpdateTargetFlags(E1) EXCEPT
                        !.emitted = Append(@, Callback("target_switched",
                                                       E1.current_target_id, best_obj_id, t))]
            ELSE E

\* MultiObjectPTZTracker._select_new_target
SelectNewTarget(E, t) ==
    IF DOMAIN E.tracked_objects = {}
    THEN [E EXCEPT !.current_target_id = None]
    ELSE LET best_obj_id == BestObjectId(E.tracked_objects)
         IN IF best_obj_id /= E.current_target_id
            THEN LET E1 == [E EXCEPT !.current_target_id = best_obj_id,
                                     !.current_follow_start_time = t,
                                     !.is_following_primary = TRUE]
                 IN [UpdateTargetFlags(E1) EXCEPT
                        !.emitted = Append(@, Callback("target_switched",
                                                       E.current_target_id, best_obj_id, t))]
            ELSE E

\* MultiObjectPTZTracker._switch_target
SwitchTarget(E, t, cfg) ==
    IF (t - E.last_switch_time) < cfg.min_switch_interval
    THEN E
    ELSE LET n == Cardinality(DOMAIN E.tracked_objects)
             sorted_objects == SortedByPriority(E.tracked_objects, DOMAIN E.tracked_objects)
             E1 == IF E.is_following_primary
                   THEN IF n > 1
                        THEN LET E2 == [E EXCEPT !.current_target_id = sorted_objects[2],
                                                 !.secondary_target_id = sorted_objects[1],
                                                 !.is_following_primary = FALSE]
                             IN [UpdateTargetFlags(E2) EXCEPT
                                    !.emitted = Append(@, Callback("target_switched",
                                                    E.current_target_id, sorted_objects[2], t))]
                        ELSE E
                   ELSE IF E.secondary_target_id /= None
                           /\ E.secondary_target_id \in DOMAIN E.tracked_objects
                        THEN LET E2 == [E EXCEPT !.current_target_id = E.secondary_target_id,
                                                 !.secondary_target_id = None,
                                                 !.is_following_primary = TRUE]
                             IN [UpdateTargetFlags(E2) EXCEPT
                                    !.emitted = Append(@, Callback("target_switched",
                                                    E.current_target_id, E.secondary_target_id, t))]
                        ELSE E
         IN [E1 EXCEPT !.last_switch_time = t,
                       !.current_follow_start_time = t,
                       !.switch_count = @ + 1]

\* MultiObjectPTZTracker._check_target_switching
CheckTargetSwitching(E, t, cfg) ==
    IF ~cfg.alternating_enabled THEN E
    ELSE IF E.current_target_id = None THEN SelectNewTarget(E, t)
    ELSE LET follow_time == t - E.current_follow_start_time
             max_time == IF E.is_following_primary THEN cfg.primary_follow_time
                         ELSE cfg.secondary_follow_time
         IN IF follow_time >= max_time
               \/ (t - E.last_switch_time) >= cfg.max_switch_interval
            THEN SwitchTarget(E, t, cfg)
            ELSE E

\* the priority of one object in _update_object_priorities, E4
PriorityOf(o, cfg) ==
    LET confidence_score == AverageConfidenceE4(o)
        movement_score == IF o.is_moving THEN Min2(o.movement_speed * 10, 10000) ELSE 0
        size_score == Min2(ObjectSizeRatioE4(o) * 4, 10000)
        proximity_score ==
            IF o.positions = << >> THEN 0
            ELSE 10000 - DistanceToCenterE4(CurrentPosition(o).cx * 100,
                                            CurrentPosition(o).cy * 100)
        priority == TruncDiv(confidence_score * cfg.confidence_weight
                             + movement_score * cfg.movement_weight
                             + size_score * cfg.size_weight
                             + proximity_score * cfg.proximity_weight, 100)
        tracking_bonus == Min2(o.time_being_tracked * 1000, 2000)
    IN priority + tracking_bonus

\* MultiObjectPTZTracker._update_object_priorities
UpdateObjectPriorities(objs, cfg) ==
    [k \in DOMAIN objs |-> [objs[k] EXCEPT !.priority_score = PriorityOf(objs[k], cfg)]]

(***************************************************************************)
(* update_detections and its helpers.                                      *)
(***************************************************************************)
\* the filter loop of update_detections: the accepted detections as positions
\* the keys the filter loop reads with det[...]: a detection without one of
\* them raises KeyError
RequiredKeys == { "cx", "cy", "width", "height", "confidence" }

\* det.get('confidence', 0)
ConfidenceOf(det) == IF "confidence" \in DOMAIN det THEN det.confidence ELSE 0

\* the filter loop of update_detections raises: some detection that passes the
\* confidence test lacks a key
RECURSIVE FilterRaises(_, _)
FilterRaises(detections, cfg) ==
    IF detections = << >> THEN FALSE
    ELSE LET det == Head(detections)
         IN IF ConfidenceOf(det) < cfg.min_confidence_threshold
            THEN FilterRaises(Tail(detections), cfg)
            ELSE IF ~(RequiredKeys \subseteq DOMAIN det) THEN TRUE
                 ELSE FilterRaises(Tail(detections), cfg)

RECURSIVE AcceptedPositionsStrict(_, _, _)
AcceptedPositionsStrict(detections, t, cfg) ==
    IF detections = << >> THEN << >>
    ELSE LET det == Head(detections)
             rest == AcceptedPositionsStrict(Tail(detections), t, cfg)
             size_ratio == det.width * det.height
         IN IF ConfidenceOf(det) <= cfg.min_confidence_threshold THEN rest
            ELSE IF size_ratio <= cfg.min_object_size \/ size_ratio >= cfg.max_object_size
                 THEN rest
                 ELSE << ObjectPosition(det, t) >> \o rest

RECURSIVE AcceptedPositions(_, _, _)
AcceptedPositions(detections, t, cfg) ==
    IF detections = << >> THEN << >>
    ELSE LET det == Head(detections)
             rest == AcceptedPositions(Tail(detections), t, cfg)
             size_ratio == det.width * det.height
         IN IF ConfidenceOf(det) < cfg.min_confidence_threshold THEN rest
            ELSE IF size_ratio < cfg.min_object_size \/ size_ratio > cfg.max_object_size
                 THEN rest
                 ELSE << ObjectPosition(det, t) >> \o rest

DistanceSq(p, q) == (p.cx - q.cx) * (p.cx - q.cx) + (p.cy - q.cy) * (p.cy - q.cy)

BestMatchLastWins(current_pos, unmatched_positions) ==
    LET inGate == { i \in 1..Len(unmatched_positions) :
                        DistanceSq(unmatched_positions[i], current_pos) < MatchGateSq }
    IN IF inGate = {} THEN 0
       ELSE CHOOSE i \in inGate :
                \A j \in inGate :
                    LET di == DistanceSq(unmatched_positions[i], current_pos)
                        dj == DistanceSq(unmatched_positions[j], current_pos)
                    IN di < dj \/ (di = dj /\ i >= j)

\* the inner loop of _update_tracked_objects: the index of the nearest unmatched
\* position inside the gate, the first one at equal distance; 0 when there is none
BestMatch(current_pos, unmatched_positions) ==
    LET inGate == { i \in 1..Len(unmatched_positions) :
                        DistanceSq(unmatched_positions[i], current_pos) < MatchGateSq }
    IN IF inGate = {} THEN 0
       ELSE CHOOSE i \in inGate :
                \A j \in inGate :
                    LET di == DistanceSq(unmatched_positions[i], current_pos)
                        dj == DistanceSq(unmatched_positions[j], current_pos)
                    IN di < dj \/ (di = dj /\ i <= j)

\* the association loop of _update_tracked_objects over the existing objects
RECURSIVE MatchObjects(_, _, _, _)
MatchObjects(ids, E, unmatched_positions, t) ==
    IF ids = << >> THEN [ E |-> E, unmatched |-> unmatched_positions ]
    ELSE LET obj_id == Head(ids)
             tracked_obj == E.tracked_objects[obj_id]
         IN IF tracked_obj.positions = << >>
            THEN MatchObjects(Tail(ids), E, unmatched_positions, t)
            ELSE LET best == BestMatch(CurrentPosition(tracked_obj), unmatched_positions)
                 IN IF best = 0
                    THEN MatchObjects(Tail(ids), E, unmatched_positions, t)
                    ELSE MatchObjects(Tail(ids),
                            [E EXCEPT !.tracked_objects[obj_id] =
                                          AddPosition(@, unmatched_positions[best], t),
                                      !.emitted = Append(@, Callback("tracking_update",
                                                                     obj_id, 0, t))],
                            RemoveAt(unmatched_positions, best), t)

HasCapacityInclusive(objs, cfg) == Cardinality(DOMAIN objs) <= cfg.max_objects_to_track

\* whether _update_tracked_objects creates an object for one more unmatched position
HasCapacity(objs, cfg) == Cardinality(DOMAIN objs) < cfg.max_objects_to_track

FollowingIdStuck(id) == id

\* self.next_object_id += 1
FollowingId(id) == id + 1

\* the creation loop of _update_tracked_objects over the unmatched positions
RECURSIVE CreateObjects(_, _, _, _)
CreateObjects(unmatched_positions, E, t, cfg) ==
    IF unmatched_positions = << >> THEN E
    ELSE IF HasCapacity(E.tracked_objects, cfg)
         THEN LET id == E.next_object_id
                  new_obj == AddPosition(NewTrackedObject(id, t), Head(unmatched_positions), t)
              IN CreateObjects(Tail(unmatched_positions),
                    [E EXCEPT !.tracked_objects = (id :> new_obj) @@ @,
                              !.emitted = Append(@, Callback("object_detected", id, 0, t)),
                              !.next_object_id = FollowingId(id)],
                    t, cfg)
         ELSE CreateObjects(Tail(unmatched_positions), E, t, cfg)

\* MultiObjectPTZTracker._update_tracked_objects
UpdateTrackedObjects(E, new_positions, t, cfg) ==
    LET m == MatchObjects(SortedIds(DOMAIN E.tracked_objects), E, new_positions, t)
    IN CreateObjects(m.unmatched, m.E, t, cfg)

\* _handle_lost_objects, one lost object: the deletion and the object_lost callback
DeleteLost(E, obj_id, t) ==
    [E EXCEPT !.tracked_objects = RemoveKey(@, obj_id),
              !.emitted = Append(@, Callback("object_lost", obj_id, 0, t))]

ClearLostNoSelect(E, obj_id, t) ==
    IF obj_id = E.current_target_id THEN [E EXCEPT !.current_target_id = None] ELSE E

\* _handle_lost_objects, one lost object: the re-selection when it was the target
ClearLost(E, obj_id, t) ==
    IF obj_id = E.current_target_id
    THEN SelectNewTarget([E EXCEPT !.current_target_id = None], t)
    ELSE E

\* the deletion loop of _handle_lost_objects
RECURSIVE DropLost(_, _, _)
DropLost(lost_objects, E, t) ==
    IF lost_objects = << >> THEN E
    ELSE LET obj_id == Head(lost_objects)
             E1 == DeleteLost(E, obj_id, t)
             E2 == ClearLost(E1, obj_id, t)
         IN DropLost(Tail(lost_objects), E2, t)

\* the objects _handle_lost_objects finds lost
LostIds(objs, current_time, cfg) ==
    { k \in DOMAIN objs : IsLost(objs[k], current_time, cfg.object_lifetime) }

\* MultiObjectPTZTracker._handle_lost_objects
HandleLostObjects(E, current_time, cfg) ==
    DropLost(SortedIds(LostIds(E.tracked_objects, current_time, cfg)), E, current_time)

(***************************************************************************)
(* Controller: pan/tilt and zoom.                                          *)
(***************************************************************************)
Clamp(x, limit) == Max2(-limit, Min2(limit, x))

\* MultiObjectPTZTracker._calculate_ptz_movement: << pan_speed, tilt_speed >>, E4
CalculatePTZMovement(target_pos, cfg) ==
    LET error_x == target_pos.cx - 5000
        error_y == target_pos.cy - 5000
        distance_factor == ISqrt(error_x * error_x + error_y * error_y)
        pan_speed == Clamp(error_x * 2, cfg.max_pan_speed)
        tilt_speed == Clamp(-error_y * 2, cfg.max_tilt_speed)
    IN IF cfg.adaptive_zoom /\ distance_factor > 1000
       THEN << TruncDiv(pan_speed * (10000 + distance_factor), 10000),
               TruncDiv(tilt_speed * (10000 + distance_factor), 10000) >>
       ELSE << pan_speed, tilt_speed >>

\* the smoothing of _execute_tracking
Smooth(current, target, cfg) ==
    IF cfg.movement_smoothing > 0
    THEN TruncDiv(current * cfg.movement_smoothing
                  + target * (100 - cfg.movement_smoothing), 100)
    ELSE target

\* the target position _execute_tracking follows, in E4 coordinates
TargetPosition(target_obj, cfg) ==
    IF cfg.prediction_enabled /\ target_obj.is_moving
    THEN PredictedPosition(target_obj, cfg.prediction_time)
    ELSE PredictedPosition([target_obj EXCEPT !.is_moving = FALSE], 0)

\* the guard of _execute_tracking and _update_auto_zoom
TargetValid(T) ==
    T.current_target_id /= None /\ T.current_target_id \in DOMAIN T.tracked_objects

TargetObject(T) == T.tracked_objects[T.current_target_id]

\* MultiObjectPTZTracker._execute_tracking up to and including the ContinuousMove call
ExecuteTrackingSend(T, t, cfg) ==
    LET speeds == CalculatePTZMovement(TargetPosition(TargetObject(T), cfg), cfg)
        pan == Smooth(T.current_pan_speed, speeds[1], cfg)
        tilt == Smooth(T.current_tilt_speed, speeds[2], cfg)
    IN [T EXCEPT !.target_pan_speed = speeds[1],
                 !.target_tilt_speed = speeds[2],
                 !.current_pan_speed = pan,
                 !.current_tilt_speed = tilt,
                 !.dispatched = Append(@, DriverCall("ContinuousMove", pan, tilt, t))]

LimitMovementHistoryOldest(h) ==
    IF Len(h) > MaxMovementHistory THEN SubSeq(h, 1, KeptMovementHistory) ELSE h

\* the history limit of _execute_tracking
LimitMovementHistory(h) ==
    IF Len(h) > MaxMovementHistory THEN LastN(h, KeptMovementHistory) ELSE h

\* MultiObjectPTZTracker._execute_tracking after the ContinuousMove call returned
\* (or raised: _send_ptz_command swallows the error)
ExecuteTrackingRest(T, target_cx, target_cy, t) ==
    [T EXCEPT !.ptz_movement_history = LimitMovementHistory(Append(@,
                    [ timestamp |-> t, pan_speed |-> T.current_pan_speed,
                      tilt_speed |-> T.current_tilt_speed,
                      target_id |-> T.current_target_id,
                      target_pos |-> << target_cx, target_cy >> ])),
              !.successful_tracks = @ + 1]

\* MultiObjectPTZTracker._execute_tracking
ExecuteTracking(T, t, cfg) ==
    IF ~TargetValid(T) THEN T
    ELSE LET target_pos == TargetPosition(TargetObject(T), cfg)
         IN ExecuteTrackingRest(ExecuteTrackingSend(T, t, cfg), target_pos.cx, target_pos.cy, t)

NextTargetZoomOpenBand(target_zoom, object_ratio, cfg) ==
    IF object_ratio * 10 <= cfg.target_object_ratio * 8
    THEN Min2(target_zoom + ZoomStepE4, cfg.max_zoom_level)
    ELSE IF object_ratio * 10 >= cfg.target_object_ratio * 12
         THEN Max2(target_zoom - ZoomStepE4, cfg.min_zoom_level)
         ELSE target_zoom

\* the zoom target of _update_auto_zoom
NextTargetZoom(target_zoom, object_ratio, cfg) ==
    IF object_ratio * 10 < cfg.target_object_ratio * 8
    THEN Min2(target_zoom + ZoomStepE4, cfg.max_zoom_level)
    ELSE IF object_ratio * 10 > cfg.target_object_ratio * 12
         THEN Max2(target_zoom - ZoomStepE4, cfg.min_zoom_level)
         ELSE target_zoom

\* whether _update_auto_zoom sends a zoom command
ZoomCommandDue(zoom_diff) == Abs(zoom_diff) > ZoomHysteresisE4

\* the zoom level _update_auto_zoom sends
NewZoom(current_zoom, zoom_diff, cfg) ==
    current_zoom + TruncDiv(zoom_diff * cfg.zoom_speed, 100)

\* the locals of _update_auto_zoom: object_ratio, the new target zoom, zoom_diff, new_zoom
ZoomPlan(T, cfg) ==
    LET current_pos == CurrentPosition(TargetObject(T))
        object_ratio == current_pos.width * current_pos.height
        tz == NextTargetZoom(T.target_zoom_level, object_ratio, cfg)
        zoom_diff == tz - T.current_zoom_level
    IN [ object_ratio |-> object_ratio, target_zoom |-> tz, zoom_diff |-> zoom_diff,
         due |-> ZoomCommandDue(zoom_diff),
         new_zoom |-> NewZoom(T.current_zoom_level, zoom_diff, cfg) ]

\* MultiObjectPTZTracker._update_auto_zoom up to the decision to send a command
UpdateAutoZoomPlan(T, cfg) ==
    IF ~TargetValid(T) THEN T
    ELSE [T EXCEPT !.target_zoom_level = ZoomPlan(T, cfg).target_zoom]

\* whether _update_auto_zoom goes on to _send_zoom_command
ZoomDue(T, cfg) == TargetValid(T) /\ ZoomPlan(T, cfg).due

\* MultiObjectPTZTracker._send_zoom_command: the AbsoluteMove call
SendZoomCommand(T, new_zoom, t) ==
    [T EXCEPT !.dispatched = Append(@, DriverCall("AbsoluteMove", new_zoom, 0, t))]

\* MultiObjectPTZTracker._update_auto_zoom after the AbsoluteMove call returned
\* (or raised: _send_zoom_command swallows the error)
UpdateAutoZoomRest(T, new_zoom, object_ratio, t) ==
    [T EXCEPT !.zoom_history = Append(@,
                    [ timestamp |-> t, old_zoom |-> T.current_zoom_level,
                      new_zoom |-> new_zoom, target_id |-> T.current_target_id,
                      object_ratio |-> object_ratio ]),
              !.current_zoom_level = new_zoom,
              !.zoom_change_count = @ + 1,
              !.emitted = Append(@, Callback("zoom_changed", new_zoom, object_ratio, t))]

\* MultiObjectPTZTracker._update_auto_zoom
UpdateAutoZoom(T, t, cfg) ==
    LET z == ZoomPlan(T, cfg)
        T1 == UpdateAutoZoomPlan(T, cfg)
    IN IF ZoomDue(T, cfg)
       THEN UpdateAutoZoomRest(SendZoomCommand(T1, z.new_zoom, t), z.new_zoom, z.object_ratio, t)
       ELSE T1

\* _tracking_loop: the start of an iteration, before any camera call
LoopHead(T, t, cfg) ==
    LET T1 == CheckTargetSwitching(T, t, cfg)
    IN [T1 EXCEPT !.tracked_objects = UpdateObjectPriorities(@, cfg)]

\* _tracking_loop: one whole iteration
LoopIteration(T, t, cfg) ==
    LET T2 == LoopHead(T, t, cfg)
        T3 == IF TargetValid(T2) THEN ExecuteTracking(T2, t, cfg) ELSE T2
    IN IF cfg.auto_zoom_enabled THEN UpdateAutoZoom(T3, t, cfg) ELSE T3

(***************************************************************************)
(* What an observer of the callbacks and of the camera driver remembers.   *)
(***************************************************************************)
IsSwitch(ev) == ev.cb = "target_switched"

LastSwitchAt(evs, before) ==
    LET idx == { i \in 1..Len(evs) : IsSwitch(evs[i]) }
    IN IF idx = {} THEN before
       ELSE evs[CHOOSE i \in idx : \A j \in idx : j <= i].at

Announced(evs) == { evs[i].a : i \in { j \in 1..Len(evs) : evs[j].cb = "object_detected" } }

Lost(evs) == { evs[i].a : i \in { j \in 1..Len(evs) : evs[j].cb = "object_lost" } }

HasCmd(cmds, names) == \E i \in 1..Len(cmds) : cmds[i].cmd \in names

Call(op, thread, received, accepted, dropped) ==
    [ op |-> op, thread |-> thread, received |-> received,
      accepted |-> accepted, dropped |-> dropped ]

Observe(call, evs, cmds) ==
    /\ last_call' = call
    /\ emitted' = evs
    /\ dispatched' = cmds
    /\ obs' = [ last_switched_at |-> LastSwitchAt(emitted, obs.last_switched_at),
                assigned_ids |-> obs.assigned_ids \cup Announced(evs),
                stop_returned |->
                    IF call.op \in {"stop_tracking_return", "cleanup_return",
                                   "emergency_stop_return"} THEN TRUE
                    ELSE IF call.op = "start_tracking" /\ call.accepted = 1 THEN FALSE
                    ELSE obs.stop_returned,
                stop_sent |->
                    IF call.op \in {"stop_tracking", "cleanup", "emergency_stop"}
                    THEN HasCmd(cmds, {"Stop"})
                    ELSE obs.stop_sent \/ HasCmd(cmds, {"Stop"}),
                lost_ids |-> obs.lost_ids \cup Lost(emitted),
                emergency_stopped |->
                    IF call.op = "emergency_stop_return" THEN TRUE
                    ELSE IF call.op = "start_tracking" /\ call.accepted = 1 THEN FALSE
                    ELSE obs.emergency_stopped ]

SetTracker(T) ==
    /\ tracked_objects' = T.tracked_objects
    /\ next_object_id' = T.next_object_id
    /\ current_target_id' = T.current_target_id
    /\ secondary_target_id' = T.secondary_target_id
    /\ last_switch_time' = T.last_switch_time
    /\ current_follow_start_time' = T.current_follow_start_time
    /\ is_following_primary' = T.is_following_primary
    /\ switch_count' = T.switch_count
    /\ current_zoom_level' = T.current_zoom_level
    /\ target_zoom_level' = T.target_zoom_level
    /\ zoom_history' = T.zoom_history
    /\ zoom_change_count' = T.zoom_change_count
    /\ ptz_movement_history' = T.ptz_movement_history
    /\ current_pan_speed' = T.current_pan_speed
    /\ current_tilt_speed' = T.current_tilt_speed
    /\ target_pan_speed' = T.target_pan_speed
    /\ target_tilt_speed' = T.target_tilt_speed
    /\ successful_tracks' = T.successful_tracks
    /\ failed_tracks' = T.failed_tracks

trackerVars == << tracked_objects, next_object_id, current_target_id, secondary_target_id,
                  last_switch_time, current_follow_start_time, is_following_primary,
                  switch_count, current_zoom_level, target_zoom_level, zoom_history,
                  zoom_change_count, ptz_movement_history, current_pan_speed,
                  current_tilt_speed, target_pan_speed, target_tilt_speed,
                  successful_tracks, failed_tracks >>

lifeVars == << state, tracking_active, stop_tracking_event, tracking_thread, caller >>

\* the thread in update_detections: where it is and its local lost_objects
Detector(pc, lost_objects) ==
    [ pc |-> pc, lost_objects |-> lost_objects, detections |-> << >> ]

\* the detection thread has been handed a batch and is about to call update_detections
DetectorCalled(detections) ==
    [ pc |-> "called", lost_objects |-> << >>, detections |-> detections ]

(***************************************************************************)
(* Initial state: MultiObjectPTZTracker.__init__ with a valid config.      *)
(***************************************************************************)
\* the fields __init__ assigns, with the session state st
EngineFields(cfg, st) ==
    /\ now = Epoch
    /\ multi_config = cfg
    /\ state = st
    /\ tracking_active = FALSE
    /\ stop_tracking_event = FALSE
    /\ tracking_thread = None
    /\ threads = << >>
    /\ caller = [ pc |-> "idle", since |-> 0 ]
    /\ detector = Detector("idle", << >>)
    /\ tracked_objects = << >>
    /\ next_object_id = 1
    /\ current_target_id = None
    /\ secondary_target_id = None
    /\ last_switch_time = 0
    /\ current_follow_start_time = 0
    /\ is_following_primary = TRUE
    /\ switch_count = 0
    /\ current_zoom_level = InitialZoomE4
    /\ target_zoom_level = InitialZoomE4
    /\ zoom_history = << >>
    /\ zoom_change_count = 0
    /\ ptz_movement_history = << >>
    /\ current_pan_speed = 0
    /\ current_tilt_speed = 0
    /\ target_pan_speed = 0
    /\ target_tilt_speed = 0
    /\ total_detections_processed = 0
    /\ successful_tracks = 0
    /\ failed_tracks = 0
    /\ emitted = << >>
    /\ dispatched = << >>
    /\ last_call = Call("init", 0, 0, 0, 0)
    /\ obs = [ last_switched_at |-> -1, assigned_ids |-> {},
               stop_returned |-> FALSE, stop_sent |-> FALSE,
               lost_ids |-> {}, emergency_stopped |-> FALSE ]

InitWith(cfg) == Validate(cfg) /\ EngineFields(cfg, "idle")

\* MultiObjectPTZTracker.__init__ called with the config the caller passes:
\* ValueError when validate() fails, else the fields are set and the camera
\* is contacted (_initialize_camera)
Construct ==
    /\ state = "unconstructed"
    /\ IF Validate(multi_config)
       THEN /\ state' = "idle"
            /\ Observe(Call("construct", 0, 0, 1, 0), << >>,
                       << DriverCall("GetProfiles", 0, 0, now) >>)
       ELSE /\ state' = "rejected"
            /\ Observe(Call("construct", 0, 0, 0, 0), << >>, << >>)
    /\ UNCHANGED << now, multi_config, detector, tracking_active, stop_tracking_event,
                    tracking_thread, caller, threads, trackerVars,
                    total_detections_processed >>

(***************************************************************************)
(* update_detections (the detection thread).                               *)
(***************************************************************************)
\* MultiObjectPTZTracker.update_detections
UpdateDetections(detections) ==
    LET raised == FilterRaises(detections, multi_config)
        new_positions == IF raised THEN << >>
                         ELSE AcceptedPositions(detections, now, multi_config)
        T1 == IF raised THEN Tracker
              ELSE UpdateTrackedObjects(Tracker, new_positions, now, multi_config)
        T2 == IF raised THEN Tracker ELSE HandleLostObjects(T1, now, multi_config)
        created == T1.next_object_id - next_object_id
        matched == Cardinality({ i \in 1..Len(T1.emitted) :
                                    T1.emitted[i].cb = "tracking_update" })
    IN /\ total_detections_processed' = total_detections_processed + Len(detections)
       /\ SetTracker(T2)
       /\ Observe(Call("update_detections", 0, Len(detections), Len(new_positions),
                       Len(new_positions) - matched - created),
                  T2.emitted, T2.dispatched)
       /\ UNCHANGED << now, multi_config, detector, lifeVars, threads >>

\* update_detections from its start to the end of the first loop of
\* _handle_lost_objects, which leaves the lost ids in lost_objects
DetectStart(detections) ==
    /\ detector.pc = "idle"
    /\ LET raised == FilterRaises(detections, multi_config)
           new_positions == IF raised THEN << >>
                            ELSE AcceptedPositions(detections, now, multi_config)
           T1 == IF raised THEN Tracker
                 ELSE UpdateTrackedObjects(Tracker, new_positions, now, multi_config)
           lost_objects == IF raised THEN << >>
                           ELSE SortedIds(LostIds(T1.tracked_objects, now, multi_config))
           created == T1.next_object_id - next_object_id
           matched == Cardinality({ i \in 1..Len(T1.emitted) :
                                       T1.emitted[i].cb = "tracking_update" })
       IN /\ total_detections_processed' = total_detections_processed + Len(detections)
          /\ SetTracker(T1)
          /\ detector' = IF lost_objects = << >> THEN Detector("idle", << >>)
                         ELSE Detector("pruning", lost_objects)
          /\ Observe(Call("update_detections", 0, Len(detections), Len(new_positions),
                          Len(new_positions) - matched - created),
                     T1.emitted, T1.dispatched)
    /\ UNCHANGED << now, multi_config, lifeVars, threads >>

\* _handle_lost_objects: the next lost object is deleted and on_object_lost is called
PruneDelete ==
    /\ detector.pc = "pruning"
    /\ Head(detector.lost_objects) \in DOMAIN tracked_objects
    /\ LET T == DeleteLost(Tracker, Head(detector.lost_objects), now)
       IN /\ SetTracker(T)
          /\ Observe(Call("prune_delete", 0, 0, 0, 0), T.emitted, T.dispatched)
    /\ detector' = Detector("deleted", detector.lost_objects)
    /\ UNCHANGED << now, multi_config, lifeVars, threads, total_detections_processed >>

\* _handle_lost_objects: on_object_lost has returned; the target test and the
\* re-selection for the deleted object, then on to the next lost object
PruneClear ==
    /\ detector.pc = "deleted"
    /\ LET T == ClearLost(Tracker, Head(detector.lost_objects), now)
       IN /\ SetTracker(T)
          /\ Observe(Call("prune_clear", 0, 0, 0, 0), T.emitted, T.dispatched)
    /\ detector' = IF Tail(detector.lost_objects) = << >> THEN Detector("idle", << >>)
                   ELSE Detector("pruning", Tail(detector.lost_objects))
    /\ UNCHANGED << now, multi_config, lifeVars, threads, total_detections_processed >>

\* the caller hands a batch to the detection thread
ReceiveDetections(detections) ==
    /\ detector' = DetectorCalled(detections)
    /\ SetTracker(Tracker)
    /\ Observe(Call("detections_received", 0, Len(detections), 0, 0), << >>, << >>)
    /\ UNCHANGED << now, multi_config, lifeVars, threads, total_detections_processed >>

\* update_detections on the batch that was handed over
ApplyDetections ==
    /\ detector.pc = "called"
    /\ last_call.op = "detections_received"
    /\ UpdateDetections(detector.detections)

(***************************************************************************)
(* The control loop (one worker thread per start_tracking).                *)
(***************************************************************************)
\* a worker: where it is, its locals, and since when it has been between camera calls
Worker(pc, a, b, since) == [ pc |-> pc, a |-> a, b |-> b, since |-> since ]

LoopTestPasses == ~stop_tracking_event /\ tracking_active

\* _tracking_loop: one iteration in which no camera call blocks
Tick(w) ==
    /\ w \in 1..Len(threads)
    /\ threads[w].pc = "loop"
    /\ LoopTestPasses
    /\ LET T == LoopIteration(Tracker, now, multi_config)
       IN /\ SetTracker(T)
          /\ Observe(Call("tick", w, 0, 0, 0), T.emitted, T.dispatched)
    /\ UNCHANGED << now, multi_config, detector, lifeVars, threads, total_detections_processed >>

\* one whole iteration of _tracking_loop in which the driver's ContinuousMove
\* raises (a fault or a timeout of the camera): _send_ptz_command catches the
\* exception and only logs it, so _execute_tracking goes on as after a call
\* that succeeded
TickDriverError(w) ==
    /\ w \in 1..Len(threads)
    /\ threads[w].pc = "loop"
    /\ LoopTestPasses
    /\ TargetValid(LoopHead(Tracker, now, multi_config))
    /\ LET T == LoopIteration(Tracker, now, multi_config)
       IN /\ SetTracker(T)
          /\ Observe(Call("tick_driver_error", w, 0, 0, 0), T.emitted, T.dispatched)
    /\ UNCHANGED << now, multi_config, detector, lifeVars, threads, total_detections_processed >>

\* _update_auto_zoom as the worker reaches it: either it ends the iteration, or it
\* has new_zoom and object_ratio in its locals and _send_zoom_command is next
ZoomStep(w, T, call) ==
    LET T1 == IF multi_config.auto_zoom_enabled THEN UpdateAutoZoomPlan(T, multi_config) ELSE T
        z == ZoomPlan(T, multi_config)
    IN /\ SetTracker(T1)
       /\ threads' = [threads EXCEPT ![w] =
                        IF multi_config.auto_zoom_enabled /\ ZoomDue(T, multi_config)
                        THEN Worker("zoom_ready", z.new_zoom, z.object_ratio, now)
                        ELSE Worker("loop", 0, 0, 0)]
       /\ Observe(call, T1.emitted, T1.dispatched)

\* _tracking_loop: an iteration from the loop test to its first camera call, where
\* the worker stays (in_move)
TickStart(w) ==
    /\ w \in 1..Len(threads)
    /\ threads[w].pc = "loop"
    /\ LoopTestPasses
    /\ LET T2 == LoopHead(Tracker, now, multi_config)
       IN IF TargetValid(T2)
          THEN LET T3 == ExecuteTrackingSend(T2, now, multi_config)
                   target_pos == TargetPosition(TargetObject(T2), multi_config)
               IN /\ SetTracker(T3)
                  /\ threads' = [threads EXCEPT ![w] =
                                    Worker("in_move", target_pos.cx, target_pos.cy, 0)]
                  /\ Observe(Call("tick_start", w, 0, 0, 0), T3.emitted, T3.dispatched)
          ELSE ZoomStep(w, T2, Call("tick_start", w, 0, 0, 0))
    /\ UNCHANGED << now, multi_config, detector, lifeVars, total_detections_processed >>

\* the ContinuousMove call returns: the rest of _execute_tracking, then
\* _update_auto_zoom up to its call of _send_zoom_command
MoveReturn(w) ==
    /\ w \in 1..Len(threads)
    /\ threads[w].pc = "in_move"
    /\ ZoomStep(w, ExecuteTrackingRest(Tracker, threads[w].a, threads[w].b, now),
                Call("move_return", w, 0, 0, 0))
    /\ UNCHANGED << now, multi_config, detector, lifeVars, total_detections_processed >>

\* _send_zoom_command: the worker calls AbsoluteMove and stays in it (in_zoom)
ZoomSend(w) ==
    /\ w \in 1..Len(threads)
    /\ threads[w].pc = "zoom_ready"
    /\ LET T == SendZoomCommand(Tracker, threads[w].a, now)
       IN /\ SetTracker(T)
          /\ Observe(Call("zoom_send", w, 0, 0, 0), T.emitted, T.dispatched)
    /\ threads' = [threads EXCEPT ![w] = Worker("in_zoom", @.a, @.b, 0)]
    /\ UNCHANGED << now, multi_config, detector, lifeVars, total_detections_processed >>

\* the AbsoluteMove call returns: the rest of _update_auto_zoom
ZoomReturn(w) ==
    /\ w \in 1..Len(threads)
    /\ threads[w].pc = "in_zoom"
    /\ LET T == UpdateAutoZoomRest(Tracker, threads[w].a, threads[w].b, now)
       IN /\ SetTracker(T)
          /\ Observe(Call("zoom_return", w, 0, 0, 0), T.emitted, T.dispatched)
    /\ threads' = [threads EXCEPT ![w] = Worker("loop", 0, 0, 0)]
    /\ UNCHANGED << now, multi_config, detector, lifeVars, total_detections_processed >>

\* _update_object_priorities interrupted by an exception after the objects with
\* an id below n were scored
PrioritiesUpTo(objs, n, cfg) ==
    [k \in DOMAIN objs |->
        IF k < n THEN [objs[k] EXCEPT !.priority_score = PriorityOf(objs[k], cfg)]
        ELSE objs[k]]

\* where an iteration of _tracking_loop raises: in _check_target_switching before
\* its first assignment (max() or sorted() over a dict that changed size), in the
\* loop of _update_object_priorities, in _execute_tracking or in _update_auto_zoom
\* before their first assignment
RaisePoints == { "switching", "scoring", "tracking", "zoom" }

\* what an iteration of _tracking_loop that raises at the point leaves behind.
\* _execute_tracking and _update_auto_zoom catch the exception themselves and the
\* iteration goes on; the others are caught by the except clause of the loop
LoopIterationRaising(T, t, cfg, point, n) ==
    LET T1 == CheckTargetSwitching(T, t, cfg)
        T2 == LoopHead(T, t, cfg)
        T3 == IF TargetValid(T2) THEN ExecuteTracking(T2, t, cfg) ELSE T2
        Failed == [T2 EXCEPT !.failed_tracks = @ + 1]
    IN CASE point = "switching" -> T
         [] point = "scoring" -> [T1 EXCEPT !.tracked_objects = PrioritiesUpTo(@, n, cfg)]
         [] point = "tracking" ->
                IF cfg.auto_zoom_enabled THEN UpdateAutoZoom(Failed, t, cfg) ELSE Failed
         [] point = "zoom" -> T3

AfterLoopErrorUncaught(worker) == [worker EXCEPT !.pc = "done"]

\* the worker after an exception in an iteration: the except clause of the loop (or
\* of the method that raised) logs it, and the worker goes back to the loop test
AfterLoopError(worker) == [worker EXCEPT !.pc = "loop"]

\* _tracking_loop: one iteration in which an exception is raised
TickRaises(w) ==
    /\ w \in 1..Len(threads)
    /\ threads[w].pc = "loop"
    /\ LoopTestPasses
    /\ \E point \in RaisePoints, n \in 1..next_object_id :
          /\ point = "scoring" => n \in DOMAIN tracked_objects
          /\ point /= "scoring" => n = 1
          /\ point = "tracking" => TargetValid(LoopHead(Tracker, now, multi_config))
          /\ point = "zoom" => multi_config.auto_zoom_enabled
          /\ LET T == LoopIterationRaising(Tracker, now, multi_config, point, n)
             IN /\ SetTracker(T)
                /\ Observe(Call("tick_raises", w, 0, 0, 0), T.emitted, T.dispatched)
    /\ threads' = [threads EXCEPT ![w] = AfterLoopError(@)]
    /\ UNCHANGED << now, multi_config, detector, lifeVars, total_detections_processed >>

\* _tracking_loop: the loop test fails and the thread ends
WorkerExit(w) ==
    /\ w \in 1..Len(threads)
    /\ threads[w].pc = "loop"
    /\ ~LoopTestPasses
    /\ threads' = [threads EXCEPT ![w] = Worker("done", 0, 0, 0)]
    /\ Observe(Call("thread_exit", w, 0, 0, 0), << >>, << >>)
    /\ UNCHANGED << now, multi_config, detector, lifeVars, trackerVars, total_detections_processed >>

(***************************************************************************)
(* start_tracking, stop_tracking, cleanup (the calling thread).            *)
(***************************************************************************)
\* tracking_thread and tracking_thread.is_alive()
ThreadAlive == tracking_thread /= None /\ threads[tracking_thread].pc /= "done"

\* the worker is inside a camera call, or has come out of one at this instant
Busy(w) ==
    \/ threads[w].pc \in {"in_move", "in_zoom"}
    \/ (threads[w].pc = "zoom_ready" /\ threads[w].since = now)

\* tracking_thread.join(timeout = 2.0) returns: the thread ended, or it is kept busy
\* past the timeout
JoinReturns ==
    \/ ~ThreadAlive
    \/ (Busy(tracking_thread) /\ now - caller.since >= JoinTimeout)

\* MultiObjectPTZTracker.start_tracking
StartTracking ==
    /\ caller.pc = "idle"
    /\ IF tracking_active
       THEN /\ Observe(Call("start_tracking", 0, 0, 0, 0), << >>, << >>)
            /\ UNCHANGED << state, tracking_active, stop_tracking_event,
                            tracking_thread, threads >>
       ELSE /\ stop_tracking_event' = FALSE
            /\ tracking_active' = TRUE
            /\ state' = "tracking"
            /\ threads' = Append(threads, Worker("loop", 0, 0, 0))
            /\ tracking_thread' = Len(threads) + 1
            /\ Observe(Call("start_tracking", 0, 0, 1, 0),
                       << Callback("state_change", 0, 0, now) >>, << >>)
    /\ UNCHANGED << now, multi_config, detector, caller, trackerVars, total_detections_processed >>

\* stop_tracking up to the join; with the engine inactive it returns at once
StopTrackingCall(joining, op, noop) ==
    IF tracking_active
    THEN /\ stop_tracking_event' = TRUE
         /\ tracking_active' = FALSE
         /\ caller' = [ pc |-> joining, since |-> now ]
         /\ Observe(Call(op, 0, 0, 1, 0), << >>, << >>)
         /\ UNCHANGED << state, tracking_thread, threads, trackerVars >>
    ELSE noop

\* stop_tracking after the join: the reset and the state_change callback
StopReset(T, t) ==
    [T EXCEPT !.current_target_id = None,
              !.secondary_target_id = None,
              !.emitted = Append(@, Callback("state_change", 0, 0, t))]

\* MultiObjectPTZTracker.stop_tracking, invoked
StopTracking ==
    /\ caller.pc = "idle"
    /\ StopTrackingCall("stop_joining", "stop_tracking",
            /\ Observe(Call("stop_tracking", 0, 0, 0, 0), << >>, << >>)
            /\ UNCHANGED << lifeVars, threads, trackerVars >>)
    /\ UNCHANGED << now, multi_config, detector, total_detections_processed >>

\* MultiObjectPTZTracker.stop_tracking, returning
StopTrackingReturn ==
    /\ caller.pc = "stop_joining"
    /\ JoinReturns
    /\ state' = "idle"
    /\ caller' = [ pc |-> "idle", since |-> 0 ]
    /\ LET T == StopReset(Tracker, now)
       IN /\ SetTracker(T)
          /\ Observe(Call("stop_tracking_return", 0, 0, 0, 0), T.emitted, T.dispatched)
    /\ UNCHANGED << now, multi_config, detector, tracking_active, stop_tracking_event,
                    tracking_thread, threads, total_detections_processed >>

\* the Stop request of cleanup: PanTilt = True (x = 1), Zoom = True (y = 1)
StopCall(t) == DriverCall("Stop", 1, 1, t)

\* cleanup after its stop_tracking: the camera Stop, then the containers are cleared
CleanupRest(T, t) ==
    [T EXCEPT !.dispatched = Append(@, StopCall(t)),
              !.tracked_objects = << >>,
              !.ptz_movement_history = << >>,
              !.zoom_history = << >>]

\* MultiObjectPTZTracker.cleanup, invoked
Cleanup ==
    /\ caller.pc = "idle"
    /\ StopTrackingCall("cleanup_joining", "cleanup",
            LET T == CleanupRest(Tracker, now)
            IN /\ SetTracker(T)
               /\ Observe(Call("cleanup_return", 0, 0, 0, 0), T.emitted, T.dispatched)
               /\ UNCHANGED << lifeVars, threads >>)
    /\ UNCHANGED << now, multi_config, detector, total_detections_processed >>

\* MultiObjectPTZTracker.cleanup, returning
CleanupReturn ==
    /\ caller.pc = "cleanup_joining"
    /\ JoinReturns
    /\ state' = "idle"
    /\ caller' = [ pc |-> "idle", since |-> 0 ]
    /\ LET T == CleanupRest(StopReset(Tracker, now), now)
       IN /\ SetTracker(T)
          /\ Observe(Call("cleanup_return", 0, 0, 1, 0), T.emitted, T.dispatched)
    /\ UNCHANGED << now, multi_config, detector, tracking_active, stop_tracking_event,
                    tracking_thread, threads, total_detections_processed >>

\* EnhancedMultiObjectPTZDialog._emergency_stop, invoked: stop_tracking() up to its
\* join; with the engine inactive stop_tracking() returns at once and cleanup() runs
EmergencyStop ==
    /\ caller.pc = "idle"
    /\ StopTrackingCall("emergency_joining", "emergency_stop",
            LET T == CleanupRest(Tracker, now)
            IN /\ SetTracker(T)
               /\ Observe(Call("emergency_stop_return", 0, 0, 0, 0), T.emitted, T.dispatched)
               /\ UNCHANGED << lifeVars, threads >>)
    /\ UNCHANGED << now, multi_config, detector, total_detections_processed >>

\* EnhancedMultiObjectPTZDialog._emergency_stop, returning: the rest of
\* stop_tracking(), then cleanup(), whose own stop_tracking() finds the engine inactive
EmergencyStopReturn ==
    /\ caller.pc = "emergency_joining"
    /\ JoinReturns
    /\ state' = "idle"
    /\ caller' = [ pc |-> "idle", since |-> 0 ]
    /\ LET T == CleanupRest(StopReset(Tracker, now), now)
       IN /\ SetTracker(T)
          /\ Observe(Call("emergency_stop_return", 0, 0, 1, 0), T.emitted, T.dispatched)
    /\ UNCHANGED << now, multi_config, detector, tracking_active, stop_tracking_event,
                    tracking_thread, threads, total_detections_processed >>

\* the clock
AdvanceTime ==
    /\ now' = now + 1
    /\ Observe(Call("time", 0, 0, 0, 0), << >>, << >>)
    /\ UNCHANGED << multi_config, detector, lifeVars, threads, trackerVars,
                    total_detections_processed >>

(***************************************************************************)
(* Specification Spec: whole calls of update_detections, whole iterations  *)
(* of the control loop, start_tracking and stop_tracking, in any order,     *)
(* with at most two objects tracked.                                       *)
(***************************************************************************)
Det(cx, cy, w, h, c) == [ cx |-> cx, cy |-> cy, width |-> w, height |-> h, confidence |-> c ]

DetA == Det(30, 50, 10, 10, 90)
DetB == Det(70, 50, 10, 10, 80)
DetC == Det(50, 20, 20, 20, 60)

Batches ==
    { << >>, << DetA >>, << DetA, DetB >>, << DetB, DetC >> }

TwoObjectConfig == [DefaultConfig EXCEPT !.max_objects_to_track = 2]

Init == InitWith(TwoObjectConfig)

DoUpdateDetections ==
    \E detections \in Batches :
        /\ total_detections_processed + Len(detections) <= MaxDetections
        /\ UpdateDetections(detections)

DoTick == \E w \in 1..Len(threads) : successful_tracks < MaxMoves /\ Tick(w)

DoWorkerExit == \E w \in 1..Len(threads) : WorkerExit(w)

DoStartTracking == Len(threads) < MaxThreads /\ StartTracking

DoAdvanceTime == now < Epoch + MaxTime /\ AdvanceTime

Next ==
    \/ DoUpdateDetections
    \/ DoTick
    \/ DoWorkerExit
    \/ DoStartTracking
    \/ StopTracking
    \/ StopTrackingReturn
    \/ DoAdvanceTime

Spec == Init /\ [][Next]_vars

(***************************************************************************)
(* Specification SpecLife: one tracked object, the control loop one camera *)
(* call at a time (a call can block), stop_tracking and cleanup with the   *)
(* bounded join, restarts.                                                 *)
(***************************************************************************)
LifeBatches == { << >>, << DetA >> }

LifeInit == InitWith(DefaultConfig)

LifeUpdateDetections ==
    \E detections \in LifeBatches :
        /\ total_detections_processed + Len(detections) <= LifeMaxDetections
        /\ UpdateDetections(detections)

LifeTickStart == \E w \in 1..Len(threads) : successful_tracks < LifeMaxMoves /\ TickStart(w)

LifeMoveReturn == \E w \in 1..Len(threads) : MoveReturn(w)

LifeZoomSend == \E w \in 1..Len(threads) : ZoomSend(w)

LifeZoomReturn == \E w \in 1..Len(threads) : ZoomReturn(w)

LifeWorkerExit == \E w \in 1..Len(threads) : WorkerExit(w)

LifeStartTracking == Len(threads) < LifeMaxThreads /\ StartTracking

LifeAdvanceTime == now < Epoch + LifeMaxTime /\ AdvanceTime

LifeNext ==
    \/ LifeUpdateDetections
    \/ LifeTickStart
    \/ LifeMoveReturn
    \/ LifeZoomSend
    \/ LifeZoomReturn
    \/ LifeWorkerExit
    \/ LifeStartTracking
    \/ StopTracking
    \/ StopTrackingReturn
    \/ Cleanup
    \/ CleanupReturn
    \/ EmergencyStop
    \/ EmergencyStopReturn
    \/ LifeAdvanceTime

SpecLife == LifeInit /\ [][LifeNext]_vars

(***************************************************************************)
(* Properties of Spec.                                                     *)
(***************************************************************************)
PrimaryTargets == { k \in DOMAIN tracked_objects : tracked_objects[k].is_primary_target }

SwitchEvents(evs) == { i \in 1..Len(evs) : IsSwitch(evs[i]) }

\* C1: in every reachable state, whatever the order of update_detections calls,
\* control-loop iterations, start_tracking and stop_tracking, at most one tracked
\* object has is_primary_target set.
C1_AtMostOnePrimary == Cardinality(PrimaryTargets) <= 1

\* the control loop has just moved the target from one live object to another
C1_Witness ==
    /\ last_call.op = "tick"
    /\ \E i \in SwitchEvents(emitted) :
          /\ emitted[i].a \in DOMAIN tracked_objects
          /\ emitted[i].b \in DOMAIN tracked_objects
          /\ emitted[i].a /= emitted[i].b
          /\ PrimaryTargets = { emitted[i].b }

\* the ids announced by object_detected, in the order of the callbacks
DetectedIds(evs) ==
    LET idx == SortedIds({ i \in 1..Len(evs) : evs[i].cb = "object_detected" })
    IN [ n \in 1..Len(idx) |-> evs[idx[n]].a ]

\* C2: every object a step creates gets an id greater than every id assigned before
\* (live or pruned), and the ids created by one call increase in creation order.
C2_IdsIncreasing ==
    [][ LET ids == DetectedIds(emitted')
        IN /\ (DOMAIN tracked_objects') \ (DOMAIN tracked_objects)
                  \subseteq { ids[n] : n \in 1..Len(ids) }
           /\ \A n \in 1..Len(ids) :
                 /\ \A j \in obs.assigned_ids \cup DOMAIN tracked_objects : ids[n] > j
                 /\ \A m \in 1..(n - 1) : ids[m] < ids[n] ]_vars

\* an object has just been created after an earlier object was pruned
C2_Witness ==
    /\ last_call.op = "update_detections"
    /\ \E k \in DOMAIN tracked_objects :
          /\ k \in Announced(emitted)
          /\ \E j \in obs.assigned_ids : j \notin DOMAIN tracked_objects /\ j < k

\* the time of the target_switched event before the i-th callback of this step
\* (-1: there is none)
PreviousSwitchAt(i) ==
    LET earlier == { j \in SwitchEvents(emitted) : j < i }
    IN IF earlier = {} THEN obs.last_switched_at
       ELSE emitted[CHOOSE j \in earlier : \A k \in earlier : k <= j].at

\* C4: between two consecutive target_switched events, whether from _switch_target
\* or from _select_new_target, at least min_switch_interval has elapsed.
C4_SwitchInterval ==
    \A i \in SwitchEvents(emitted) :
        \/ PreviousSwitchAt(i) = -1
        \/ emitted[i].at - PreviousSwitchAt(i) >= multi_config.min_switch_interval

EmptyUpdate == Call("update_detections", 0, 0, 0, 0)

\* what C9 lists: the tracks with their histories and flags, the targets, the counter
engineState ==
    << tracked_objects, next_object_id, current_target_id, secondary_target_id,
       last_switch_time, current_follow_start_time, is_following_primary, switch_count,
       total_detections_processed >>

\* C9 as stated: an empty batch leaves the engine state unchanged and invokes no
\* callback, in every reachable state.
C9_EmptyBatchUnchanged ==
    [][ last_call' = EmptyUpdate => (UNCHANGED engineState /\ emitted' = << >>) ]_vars

SilentWithinLifetime ==
    \A k \in DOMAIN tracked_objects :
        now - tracked_objects[k].last_seen <= multi_config.object_lifetime

\* C9 amended: an empty batch leaves the engine state unchanged and invokes no
\* callback when no tracked object has been silent for longer than object_lifetime.
C9_EmptyBatchUnchangedUnlessLost ==
    [][ (last_call' = EmptyUpdate /\ SilentWithinLifetime)
            => (UNCHANGED engineState /\ emitted' = << >>) ]_vars

\* an empty batch has been processed while an object was silent for exactly
\* object_lifetime, and the object is still tracked
C9_Witness ==
    /\ last_call = EmptyUpdate
    /\ \E k \in DOMAIN tracked_objects :
          now - tracked_objects[k].last_seen = multi_config.object_lifetime

\* C10: the number of tracked objects never exceeds max_objects_to_track; a call
\* creates objects only from below the limit and up to it, and the detections it
\* leaves over when the limit is reached create nothing.
C10_TrackLimit ==
    /\ [](Cardinality(DOMAIN tracked_objects) <= multi_config.max_objects_to_track)
    /\ [][ LET created == Announced(emitted')
               before == Cardinality(DOMAIN tracked_objects)
           IN /\ created /= {} => before < multi_config.max_objects_to_track
              /\ before + Cardinality(created) <= multi_config.max_objects_to_track
              /\ last_call'.dropped > 0 =>
                    before + Cardinality(created) = multi_config.max_objects_to_track ]_vars

\* a call has just discarded a detection with the limit reached
C10_Witness ==
    /\ last_call.op = "update_detections"
    /\ last_call.dropped > 0
    /\ Cardinality(DOMAIN tracked_objects) = multi_config.max_objects_to_track

(***************************************************************************)
(* Specification SpecHist: one object detected again and again, long       *)
(* enough for its history to overflow.                                     *)
(***************************************************************************)
HistInit == InitWith(DefaultConfig)

HistUpdateDetections ==
    /\ total_detections_processed < HistMaxDetections
    /\ UpdateDetections(<< DetA >>)

HistAdvanceTime == now < Epoch + HistMaxTime /\ AdvanceTime

HistNext == HistUpdateDetections \/ HistAdvanceTime

SpecHist == HistInit /\ [][HistNext]_vars

HistoryBounded(o) ==
    /\ Len(o.positions) >= 1
    /\ Len(o.positions) <= 20
    /\ \A i \in 1..(Len(o.positions) - 1) :
          o.positions[i].timestamp <= o.positions[i + 1].timestamp

\* the history after one more sample: the sample appended, the oldest sample gone
\* when the history was full
HistoryShifted(before, after) ==
    LET newest == after[Len(after)]
    IN /\ newest.timestamp = now'
       /\ after = IF Len(before) < 20 THEN Append(before, newest)
                  ELSE Append(Tail(before), newest)

\* C3: every tracked object's position history is non-empty, holds at most 20
\* samples with non-decreasing timestamps, and a new sample is appended at the end
\* while the oldest sample is evicted once 20 are held.
C3_HistoryBounded ==
    /\ [](\A k \in DOMAIN tracked_objects : HistoryBounded(tracked_objects[k]))
    /\ [][ \A k \in (DOMAIN tracked_objects) \cap (DOMAIN tracked_objects') :
              tracked_objects'[k].frames_tracked /= tracked_objects[k].frames_tracked
                  => HistoryShifted(tracked_objects[k].positions,
                                    tracked_objects'[k].positions) ]_vars

\* an object has received more than 20 samples over more than one instant
C3_Witness ==
    \E k \in DOMAIN tracked_objects :
        /\ tracked_objects[k].frames_tracked > 20
        /\ Len(tracked_objects[k].positions) = 20
        /\ tracked_objects[k].positions[1].timestamp
               < tracked_objects[k].positions[20].timestamp

(***************************************************************************)
(* Specification SpecPan: the pan/tilt controller on an object anywhere in *)
(* the frame, with and without adaptive gain and smoothing.                *)
(***************************************************************************)
PanConfigs ==
    { [DefaultConfig EXCEPT !.adaptive_zoom = a, !.movement_smoothing = m,
                            !.max_pan_speed = p, !.max_tilt_speed = p,
                            !.auto_zoom_enabled = FALSE] :
        a \in BOOLEAN, m \in {0, 50}, p \in {3000, 8000} }

PanDetections == { Det(cx, cy, 10, 10, 90) : cx \in {0, 50, 100}, cy \in {0, 50, 100} }

PanInit == \E cfg \in PanConfigs : InitWith(cfg)

PanUpdateDetections ==
    \E det \in PanDetections :
        /\ total_detections_processed < PanMaxDetections
        /\ UpdateDetections(<< det >>)

PanTick == \E w \in 1..Len(threads) : successful_tracks < PanMaxMoves /\ Tick(w)

PanStartTracking == Len(threads) < PanMaxThreads /\ StartTracking

PanNext == PanUpdateDetections \/ PanTick \/ PanStartTracking

SpecPan == PanInit /\ [][PanNext]_vars

\* C5: every pan/tilt pair passed to ContinuousMove is within max_pan_speed and
\* max_tilt_speed in absolute value.
C5_PanTiltWithinLimits ==
    \A i \in 1..Len(dispatched) :
        dispatched[i].cmd = "ContinuousMove"
            => /\ Abs(dispatched[i].x) <= multi_config.max_pan_speed
               /\ Abs(dispatched[i].y) <= multi_config.max_tilt_speed

(***************************************************************************)
(* Specification SpecZoom: the zoom controller on an object of changing    *)
(* size, under the zoom ranges validate() accepts.                         *)
(***************************************************************************)
ZoomConfigs ==
    { [DefaultConfig EXCEPT !.min_zoom_level = lo, !.max_zoom_level = hi] :
        lo \in {0, 6000}, hi \in {4000, 10000} }

ZoomDetections == { Det(50, 50, side, side, 90) : side \in {10, 50, 60} }

ZoomInit == \E cfg \in ZoomConfigs : InitWith(cfg)

ZoomUpdateDetections ==
    \E det \in ZoomDetections :
        /\ total_detections_processed < ZoomMaxDetections
        /\ UpdateDetections(<< det >>)

ZoomTick == \E w \in 1..Len(threads) : successful_tracks < ZoomMaxMoves /\ Tick(w)

ZoomStartTracking == Len(threads) < ZoomMaxThreads /\ StartTracking

ZoomNext == ZoomUpdateDetections \/ ZoomTick \/ ZoomStartTracking

SpecZoom == ZoomInit /\ [][ZoomNext]_vars

\* C6: every zoom level passed to AbsoluteMove lies within
\* [min_zoom_level, max_zoom_level].
C6_ZoomWithinRange ==
    \A i \in 1..Len(dispatched) :
        dispatched[i].cmd = "AbsoluteMove"
            => /\ multi_config.min_zoom_level <= dispatched[i].x
               /\ dispatched[i].x <= multi_config.max_zoom_level

(***************************************************************************)
(* Properties of SpecLife.                                                 *)
(***************************************************************************)
\* C7: once stop_tracking has returned, no step dispatches a ContinuousMove or an
\* AbsoluteMove (until tracking is started again).
C7_NoMoveAfterStop ==
    obs.stop_returned => ~HasCmd(dispatched, {"ContinuousMove", "AbsoluteMove"})

\* C8: when stop_tracking, invoked on an active engine, returns, a camera Stop has
\* been sent since its invocation.
C8_StopSentOnStop ==
    last_call.op = "stop_tracking_return" => obs.stop_sent

(***************************************************************************)
(* Lost objects and the control loop (Spec).                               *)
(***************************************************************************)
SilentTooLong(k) == now - tracked_objects[k].last_seen > multi_config.object_lifetime

\* C11: with detections ceased, the running engine destroys every object once its
\* silence exceeds object_lifetime: after an iteration of the control loop no
\* tracked object is silent for longer than object_lifetime.
C11_LoopDestroysSilentObjects ==
    last_call.op = "tick" => \A k \in DOMAIN tracked_objects : ~SilentTooLong(k)

\* C12: the control loop sends no ContinuousMove for a target that has been silent
\* for longer than object_lifetime.
C12_NoMoveOnSilentTarget ==
    (last_call.op = "tick" /\ HasCmd(dispatched, {"ContinuousMove"}))
        => (current_target_id \in DOMAIN tracked_objects
            /\ ~SilentTooLong(current_target_id))

(***************************************************************************)
(* Emergency stop (SpecLife).                                              *)
(***************************************************************************)
\* C13: when an emergency stop of an active engine returns, a Stop with
\* PanTilt = true and Zoom = true has been dispatched and the state is Error.
C13_EmergencyStopEndsInError ==
    (last_call.op = "emergency_stop_return" /\ last_call.accepted = 1)
        => /\ \E i \in 1..Len(dispatched) : dispatched[i] = StopCall(now)
           /\ state = "error"

\* C14: after an emergency stop, update_detections creates, updates and removes no
\* tracked object.
C14_NoUpdateAfterEmergencyStop ==
    [][ (obs.emergency_stopped /\ last_call'.op = "update_detections")
            => tracked_objects' = tracked_objects ]_vars

(***************************************************************************)
(* Alternation and selection (Spec).                                       *)
(***************************************************************************)
\* C15: the first alternation of a session (the first _switch_target, moving the
\* target away from the initially selected object) comes no earlier than
\* primary_follow_time after that object was selected.
C15_FirstAlternationAfterDwell ==
    \A i \in SwitchEvents(emitted) :
        (last_call.op = "tick" /\ switch_count = 1 /\ emitted[i].a /= None)
            => emitted[i].at - PreviousSwitchAt(i) >= multi_config.primary_follow_time

(***************************************************************************)
(* Specification SpecRace: update_detections on the detection thread one   *)
(* step at a time (its callbacks return to it), interleaved with whole     *)
(* iterations of the control loop.  The source takes no lock.              *)
(***************************************************************************)
RaceBatches == { << >>, << DetA >>, << DetA, DetB >> }

RaceInit == InitWith(TwoObjectConfig)

RaceDetectStart ==
    \E detections \in RaceBatches :
        /\ total_detections_processed + Len(detections) <= RaceMaxDetections
        /\ DetectStart(detections)

RaceTick == \E w \in 1..Len(threads) : successful_tracks < RaceMaxMoves /\ Tick(w)

RaceStartTracking == Len(threads) < RaceMaxThreads /\ StartTracking

RaceAdvanceTime == now < Epoch + RaceMaxTime /\ AdvanceTime

RaceNext ==
    \/ RaceDetectStart
    \/ PruneDelete
    \/ PruneClear
    \/ RaceTick
    \/ RaceStartTracking
    \/ RaceAdvanceTime

SpecRace == RaceInit /\ [][RaceNext]_vars

\* C16: an iteration of the control loop never starts from a store to which an
\* update_detections call is partly applied; in particular it never finds
\* current_target_id naming an object that the call has already deleted.
C16_TickSeesWholeUpdates ==
    [][ last_call'.op = "tick"
            => (current_target_id = None \/ current_target_id \in DOMAIN tracked_objects) ]_vars

Mentions(ev, id) ==
    \/ (ev.cb \in {"object_detected", "tracking_update", "object_lost"} /\ ev.a = id)
    \/ (ev.cb = "target_switched" /\ (ev.a = id \/ ev.b = id))

\* C17: once object_lost(id) has been emitted, no later callback mentions id.
C17_ObjectLostIsTerminal ==
    \A i \in 1..Len(emitted) :
        /\ \A id \in obs.lost_ids : ~Mentions(emitted[i], id)
        /\ \A j \in 1..(i - 1) :
              emitted[j].cb = "object_lost" => ~Mentions(emitted[i], emitted[j].a)

(***************************************************************************)
(* Re-selection after the loss of the target (Spec).                       *)
(***************************************************************************)
\* C18: when update_detections prunes the current target while another object
\* remains, the call leaves a live object as current target, flagged as primary,
\* before any later iteration of the control loop.
C18_ReplacementAfterLoss ==
    [][ (/\ last_call'.op = "update_detections"
         /\ current_target_id \in DOMAIN tracked_objects
         /\ current_target_id \notin DOMAIN tracked_objects'
         /\ DOMAIN tracked_objects' /= {})
            => /\ current_target_id' \in DOMAIN tracked_objects'
               /\ tracked_objects'[current_target_id'].is_primary_target ]_vars

\* the target has just been pruned and another live object has taken its place
C18_Witness ==
    /\ last_call.op = "update_detections"
    /\ current_target_id \in DOMAIN tracked_objects
    /\ \E i \in 1..Len(emitted), j \in 1..Len(emitted) :
          /\ i < j
          /\ emitted[i].cb = "object_lost"
          /\ emitted[j] = Callback("target_switched", None, current_target_id, now)

(***************************************************************************)
(* Specification SpecSelect: the first selection of a target, with the     *)
(* default configuration, with alternation disabled, and with the          *)
(* single_object preset of create_multi_object_tracker.                    *)
(***************************************************************************)
\* configs['single_object'] of create_multi_object_tracker
SingleObjectConfig ==
    [DefaultConfig EXCEPT !.alternating_enabled = FALSE,
                          !.target_object_ratio = 3500,
                          !.confidence_weight = 50,
                          !.movement_weight = 30,
                          !.size_weight = 20,
                          !.max_objects_to_track = 1]

SelectConfigs ==
    { TwoObjectConfig,
      [TwoObjectConfig EXCEPT !.alternating_enabled = FALSE],
      SingleObjectConfig }

SelectBatches == { << DetA >>, << DetC, DetA >> }

SelectInit == \E cfg \in SelectConfigs : Validate(cfg) /\ InitWith(cfg)

SelectUpdateDetections ==
    \E detections \in SelectBatches :
        /\ total_detections_processed + Len(detections) <= SelectMaxDetections
        /\ UpdateDetections(detections)

SelectTick == \E w \in 1..Len(threads) : successful_tracks < SelectMaxMoves /\ Tick(w)

SelectStartTracking == Len(threads) < SelectMaxThreads /\ StartTracking

SelectAdvanceTime == now < Epoch + SelectMaxTime /\ AdvanceTime

SelectNext ==
    SelectUpdateDetections \/ SelectTick \/ SelectStartTracking \/ SelectAdvanceTime

SpecSelect == SelectInit /\ [][SelectNext]_vars

\* C19: an iteration of the control loop that starts with no current target and
\* at least one tracked object ends with a current target, whatever the valid
\* configuration (alternation disabled included).
C19_TickChoosesTarget ==
    [][ (/\ last_call'.op = "tick"
         /\ current_target_id = None
         /\ DOMAIN tracked_objects /= {})
            => current_target_id' \in DOMAIN tracked_objects' ]_vars

\* C20: the object a loop iteration selects when there was no target is the
\* one whose priority, computed from its confidence, motion, size, proximity
\* and tenure at that time, is highest, the lowest id winning a tie.
C20_SelectsHighestPriority ==
    [][ (/\ last_call'.op = "tick"
         /\ current_target_id = None
         /\ current_target_id' \in DOMAIN tracked_objects)
            => \A k \in DOMAIN tracked_objects :
                  LET chosen == PriorityOf(tracked_objects[current_target_id'], multi_config)
                      other  == PriorityOf(tracked_objects[k], multi_config)
                  IN \/ other < chosen
                     \/ (other = chosen /\ current_target_id' <= k) ]_vars

(***************************************************************************)
(* Specification SpecAlt: alternation between two objects, one of which    *)
(* may stop being detected while the other is followed.                    *)
(***************************************************************************)
AltBatches == { << DetA, DetB >>, << DetB >>, << DetC, DetA >> }

AltInit == InitWith(TwoObjectConfig)

AltUpdateDetections ==
    \E detections \in AltBatches :
        /\ total_detections_processed + Len(detections) <= AltMaxDetections
        /\ UpdateDetections(detections)

AltTick == \E w \in 1..Len(threads) : successful_tracks < AltMaxMoves /\ Tick(w)

AltStartTracking == Len(threads) < AltMaxThreads /\ StartTracking

AltAdvanceTime == now < Epoch + AltMaxTime /\ AdvanceTime

AltNext == AltUpdateDetections \/ AltTick \/ AltStartTracking \/ AltAdvanceTime

SpecAlt == AltInit /\ [][AltNext]_vars

\* C21: a loop iteration that leaves following-primary mode remembers the object
\* that was the current target as secondary_target_id, and an iteration that
\* returns to following-primary mode makes the remembered object the target.
C21_FormerPrimaryRemembered ==
    [][ last_call'.op = "tick"
            => /\ (is_following_primary /\ ~is_following_primary')
                      => secondary_target_id' = current_target_id
               /\ (~is_following_primary /\ is_following_primary'
                   /\ current_target_id' /= current_target_id)
                      => current_target_id' = secondary_target_id ]_vars

\* the time for which the current target has been followed
FollowTime == now - current_follow_start_time

\* C22: a loop iteration that starts in following-secondary mode with the dwell
\* expired and the remembered primary no longer tracked ends in
\* following-primary mode with a tracked object as target.
C22_NewPrimaryWhenFormerGone ==
    [][ (/\ last_call'.op = "tick"
         /\ ~is_following_primary
         /\ current_target_id \in DOMAIN tracked_objects
         /\ secondary_target_id \notin DOMAIN tracked_objects
         /\ FollowTime >= multi_config.secondary_follow_time
         /\ now - last_switch_time >= multi_config.min_switch_interval)
            => /\ is_following_primary'
               /\ current_target_id' \in DOMAIN tracked_objects' ]_vars

(***************************************************************************)
(* The target_switched event (Spec).                                       *)
(***************************************************************************)
\* the target_switched events of evs that report new_id as the new target
SwitchesTo(evs, new_id) == { i \in SwitchEvents(evs) : evs[i].b = new_id }

OnlyPrimary(objs, id) == \A k \in DOMAIN objs : objs[k].is_primary_target <=> (k = id)

\* C23 as stated: a step that changes the current target to another object
\* emits exactly one target_switched event, whose old and new ids are the
\* target before and after the step, and leaves the new target as the only
\* object flagged as primary.
C23_SwitchEventOnChange ==
    [][ (current_target_id' /= current_target_id /\ current_target_id' /= None)
            => /\ Cardinality(SwitchEvents(emitted')) = 1
               /\ \A i \in SwitchEvents(emitted') :
                      /\ emitted'[i].a = current_target_id
                      /\ emitted'[i].b = current_target_id'
               /\ OnlyPrimary(tracked_objects', current_target_id') ]_vars

\* C23 amended: a step that changes the current target to another object emits
\* exactly one target_switched event naming the new target, whose old id is the
\* target before the step, or None when that target was pruned earlier in the
\* same step (after its object_lost), and leaves the new target as the only
\* object flagged as primary.
C23_SwitchEventOnChangeOrLoss ==
    [][ (current_target_id' /= current_target_id /\ current_target_id' /= None)
            => /\ Cardinality(SwitchesTo(emitted', current_target_id')) = 1
               /\ \A i \in SwitchesTo(emitted', current_target_id') :
                      \/ emitted'[i].a = current_target_id
                      \/ /\ emitted'[i].a = None
                         /\ \E j \in 1..(i - 1) :
                               /\ emitted'[j].cb = "object_lost"
                               /\ emitted'[j].a = current_target_id
               /\ OnlyPrimary(tracked_objects', current_target_id') ]_vars

\* an alternation has just moved the target from one object to another
C23_Witness ==
    /\ last_call.op = "tick"
    /\ current_target_id \in DOMAIN tracked_objects
    /\ \E i \in SwitchEvents(emitted) :
          /\ emitted[i].a \in DOMAIN tracked_objects
          /\ emitted[i].a /= current_target_id
          /\ emitted[i].b = current_target_id
    /\ OnlyPrimary(tracked_objects, current_target_id)

(***************************************************************************)
(* Specification SpecFault: a camera driver whose ContinuousMove may fail. *)
(***************************************************************************)
FaultBatches == { << DetA >>, << DetA, DetB >> }

FaultInit == InitWith(TwoObjectConfig)

FaultUpdateDetections ==
    \E detections \in FaultBatches :
        /\ total_detections_processed + Len(detections) <= FaultMaxDetections
        /\ UpdateDetections(detections)

FaultTick == \E w \in 1..Len(threads) : successful_tracks < FaultMaxMoves /\ Tick(w)

FaultTickDriverError ==
    \E w \in 1..Len(threads) : successful_tracks < FaultMaxMoves /\ TickDriverError(w)

FaultStartTracking == Len(threads) < FaultMaxThreads /\ StartTracking

FaultAdvanceTime == now < Epoch + FaultMaxTime /\ AdvanceTime

FaultNext ==
    \/ FaultUpdateDetections
    \/ FaultTick
    \/ FaultTickDriverError
    \/ FaultStartTracking
    \/ FaultAdvanceTime

SpecFault == FaultInit /\ [][FaultNext]_vars

\* C24: a loop iteration whose ContinuousMove fails adds one to failed_tracks,
\* leaves successful_tracks as it was and keeps the session state.
C24_DriverErrorCountsAsFailed ==
    [][ last_call'.op = "tick_driver_error"
            => /\ failed_tracks' = failed_tracks + 1
               /\ successful_tracks' = successful_tracks
               /\ state' = state
               /\ tracking_active' = tracking_active ]_vars

\* C25: a loop iteration whose driver call fails leaves the session in the
\* Error state, has sent a Stop to the camera and has reported the new state.
C25_DriverErrorEndsInError ==
    last_call.op = "tick_driver_error"
        => /\ state = "error"
           /\ HasCmd(dispatched, {"Stop"})
           /\ \E i \in 1..Len(emitted) : emitted[i].cb = "state_change"

(***************************************************************************)
(* Specification SpecInvalid: batches with a detection whose centre is     *)
(* outside the frame or whose cx key is missing.                           *)
(***************************************************************************)
DetOutside == Det(150, 50, 10, 10, 90)
DetNoCx == [ cy |-> 50, width |-> 10, height |-> 10, confidence |-> 90 ]

InvalidBatches ==
    { << DetA >>, << DetB >>, << DetA, DetOutside >>, << DetNoCx, DetB >> }

InvalidInit == InitWith(DefaultConfig)

InvalidReceiveDetections ==
    \E detections \in InvalidBatches :
        /\ last_call.op /= "detections_received"
        /\ total_detections_processed + Len(detections) <= InvalidMaxDetections
        /\ ReceiveDetections(detections)

InvalidAdvanceTime ==
    /\ last_call.op /= "detections_received"
    /\ now < Epoch + InvalidMaxTime
    /\ AdvanceTime

InvalidNext == InvalidReceiveDetections \/ ApplyDetections \/ InvalidAdvanceTime

SpecInvalid == InvalidInit /\ [][InvalidNext]_vars

\* a detection with every key and its centre inside the frame
ValidDetection(det) ==
    /\ RequiredKeys \subseteq DOMAIN det
    /\ det.cx >= 0 /\ det.cx <= 100
    /\ det.cy >= 0 /\ det.cy <= 100

\* a valid detection that passes the confidence and size filters
Admissible(det, cfg) ==
    /\ ValidDetection(det)
    /\ det.confidence >= cfg.min_confidence_threshold
    /\ det.width * det.height >= cfg.min_object_size
    /\ det.width * det.height <= cfg.max_object_size

\* C26: after update_detections no stored position has its centre outside the
\* frame, and (when the object limit is not in the way) every valid detection of
\* the batch that passes the filters is the newest position of some object.
C26_OnlyInvalidItemsDropped ==
    [][ last_call'.op = "update_detections"
            => /\ \A k \in DOMAIN tracked_objects' :
                    \A i \in 1..Len(tracked_objects'[k].positions) :
                        LET pos == tracked_objects'[k].positions[i]
                        IN pos.cx >= 0 /\ pos.cx <= 100 /\ pos.cy >= 0 /\ pos.cy <= 100
               /\ \A i \in 1..Len(detector.detections) :
                    (/\ Admissible(detector.detections[i], multi_config)
                     /\ Cardinality(DOMAIN tracked_objects) + Len(detector.detections)
                            <= multi_config.max_objects_to_track)
                        => \E k \in DOMAIN tracked_objects' :
                              CurrentPosition(tracked_objects'[k])
                                  = ObjectPosition(detector.detections[i], now) ]_vars

(***************************************************************************)
(* Specification SpecPredict: one object that stays where it is and one    *)
(* that moves, followed with prediction enabled.                           *)
(***************************************************************************)
DetBMoved == Det(75, 50, 10, 10, 80)

PredictBatches == { << DetA, DetB >>, << DetA, DetBMoved >> }

\* the lookahead times (ms) get_predicted_position is asked for
Lookaheads == { 0, 100, 1000 }

PredictInit == InitWith(TwoObjectConfig)

PredictUpdateDetections ==
    \E detections \in PredictBatches :
        /\ total_detections_processed + Len(detections) <= PredictMaxDetections
        /\ UpdateDetections(detections)

PredictTick == \E w \in 1..Len(threads) : successful_tracks < PredictMaxMoves /\ Tick(w)

PredictStartTracking == Len(threads) < PredictMaxThreads /\ StartTracking

PredictAdvanceTime == now < Epoch + PredictMaxTime /\ AdvanceTime

PredictNext ==
    PredictUpdateDetections \/ PredictTick \/ PredictStartTracking \/ PredictAdvanceTime

SpecPredict == PredictInit /\ [][PredictNext]_vars

\* a stored position in the units of a predicted one
Observed(pos) ==
    [ cx |-> pos.cx * 100, cy |-> pos.cy * 100, width |-> pos.width,
      height |-> pos.height, confidence |-> pos.confidence * 100,
      timestamp_ms |-> pos.timestamp * 1000 ]

\* the history of an object and the fields derived from it
Motion(o) ==
    << o.positions, o.confidence_history, o.last_seen, o.first_seen, o.frames_tracked,
       o.velocity_x, o.velocity_y, o.movement_speed, o.is_moving >>

\* C27: the predicted position of an object whose velocity is zero is its last
\* observed position for every lookahead, and a loop iteration, which predicts
\* the position of a moving target, leaves every object's history and the
\* fields derived from it as they were.
C27_PredictionIsPure ==
    [][ /\ \A k \in DOMAIN tracked_objects' :
              (tracked_objects'[k].velocity_x = 0 /\ tracked_objects'[k].velocity_y = 0)
                  => \A time_ahead \in Lookaheads :
                        PredictedPosition(tracked_objects'[k], time_ahead)
                            = Observed(CurrentPosition(tracked_objects'[k]))
        /\ last_call'.op = "tick"
              => /\ DOMAIN tracked_objects' = DOMAIN tracked_objects
                 /\ \A k \in DOMAIN tracked_objects :
                       Motion(tracked_objects'[k]) = Motion(tracked_objects[k]) ]_vars

\* a loop iteration has followed a moving target, by prediction, while another
\* object with a history of several samples has zero velocity
C27_Witness ==
    /\ last_call.op = "tick"
    /\ HasCmd(dispatched, {"ContinuousMove"})
    /\ current_target_id \in DOMAIN tracked_objects
    /\ tracked_objects[current_target_id].is_moving
    /\ multi_config.prediction_enabled
    /\ \E k \in DOMAIN tracked_objects :
          /\ Len(tracked_objects[k].positions) >= 2
          /\ tracked_objects[k].velocity_x = 0
          /\ tracked_objects[k].velocity_y = 0

(***************************************************************************)
(* Specification SpecConfig: the constructor called with valid and invalid *)
(* configurations, and the engine used afterwards.                         *)
(***************************************************************************)
ConfigCandidates ==
    { DefaultConfig }
      \cup { [DefaultConfig EXCEPT !.max_objects_to_track = n] : n \in {0, 1, 10, 11} }
      \cup { [DefaultConfig EXCEPT !.min_zoom_level = 6000, !.max_zoom_level = 4000] }
      \cup { [DefaultConfig EXCEPT !.min_switch_interval = i] : i \in {-1, 0} }
      \cup { [DefaultConfig EXCEPT !.primary_follow_time = d] : d \in {-1, 0, 60, 61} }
      \cup { [DefaultConfig EXCEPT !.secondary_follow_time = d] : d \in {-1, 0, 60, 61} }

ConfigBatches == { << DetA >>, << DetA, DetB >> }

ConfigInit == \E cfg \in ConfigCandidates : EngineFields(cfg, "unconstructed")

Constructed == state \notin { "unconstructed", "rejected" }

ConfigUpdateDetections ==
    \E detections \in ConfigBatches :
        /\ Constructed
        /\ total_detections_processed + Len(detections) <= ConfigMaxDetections
        /\ UpdateDetections(detections)

ConfigTick == \E w \in 1..Len(threads) : successful_tracks < ConfigMaxMoves /\ Tick(w)

ConfigStartTracking == Constructed /\ Len(threads) < ConfigMaxThreads /\ StartTracking

ConfigNext == Construct \/ ConfigUpdateDetections \/ ConfigTick \/ ConfigStartTracking

SpecConfig == ConfigInit /\ [][ConfigNext]_vars

\* the configurations the constructor has to reject
OutOfRange(cfg) ==
    \/ cfg.max_objects_to_track < 1 \/ cfg.max_objects_to_track > 10
    \/ cfg.min_zoom_level > cfg.max_zoom_level
    \/ cfg.min_switch_interval <= 0
    \/ cfg.primary_follow_time < 0 \/ cfg.primary_follow_time > 60
    \/ cfg.secondary_follow_time < 0 \/ cfg.secondary_follow_time > 60

\* C28: the default configuration validates and the constructor accepts it; a
\* constructor called with max_objects_to_track outside 1..10, min_zoom_level
\* above max_zoom_level, min_switch_interval <= 0 or a dwell time outside
\* [0, 60] raises, and no engine, worker or camera call ever exists for it.
C28_InvalidConfigRejected ==
    /\ Validate(DefaultConfig)
    /\ (last_call.op = "construct" /\ multi_config = DefaultConfig) => state = "idle"
    /\ (state /= "unconstructed" /\ OutOfRange(multi_config))
          => /\ state = "rejected"
             /\ threads = << >>
             /\ ~tracking_active
             /\ dispatched = << >>
             /\ DOMAIN tracked_objects = {}

\* the constructor has just refused a configuration with eleven objects
C28_Witness ==
    /\ last_call.op = "construct"
    /\ last_call.accepted = 0
    /\ state = "rejected"
    /\ multi_config.max_objects_to_track = 11

(***************************************************************************)
(* Specification SpecMatch: association of detections with two objects     *)
(* that are close to each other: ties, second choices and the gate.        *)
(***************************************************************************)
\* a detection on the horizontal line through the centre of the frame
Pt(cx) == Det(cx, 50, 10, 10, 90)

MatchBatches ==
    { << Pt(30), Pt(38) >>,     \* two objects, 8 apart
      << Pt(34) >>,             \* as far from the one as from the other
      << Pt(35), Pt(25) >>,     \* both 5 away from an object at 30
      << Pt(36), Pt(32) >>,     \* the second is nearer to an object at 30
      << Pt(40), Pt(20) >> }    \* exactly on the gate of an object at 30

MatchInit == InitWith(DefaultConfig)

MatchReceiveDetections ==
    \E detections \in MatchBatches :
        /\ last_call.op /= "detections_received"
        /\ total_detections_processed + Len(detections) <= MatchMaxDetections
        /\ ReceiveDetections(detections)

MatchAdvanceTime ==
    /\ last_call.op /= "detections_received"
    /\ now < Epoch + MatchMaxTime
    /\ AdvanceTime

MatchNext == MatchReceiveDetections \/ ApplyDetections \/ MatchAdvanceTime

SpecMatch == MatchInit /\ [][MatchNext]_vars

\* the positions the call works on
Accepted == AcceptedPositions(detector.detections, now, multi_config)

\* the objects that exist before and after the call
Surviving == DOMAIN tracked_objects \cap DOMAIN tracked_objects'

\* C29: in one update_detections call every object receives at most one sample,
\* a new object starts with one sample, every sample received is a position of
\* the batch, and no position of the batch is received by two objects.
C29_OneToOne ==
    [][ last_call'.op = "update_detections"
            => /\ \A k \in Surviving :
                     \/ tracked_objects'[k].frames_tracked = tracked_objects[k].frames_tracked
                     \/ /\ tracked_objects'[k].frames_tracked
                              = tracked_objects[k].frames_tracked + 1
                        /\ \E i \in 1..Len(Accepted) :
                              CurrentPosition(tracked_objects'[k]) = Accepted[i]
               /\ \A k \in DOMAIN tracked_objects' \ DOMAIN tracked_objects :
                     /\ tracked_objects'[k].frames_tracked = 1
                     /\ \E i \in 1..Len(Accepted) :
                           CurrentPosition(tracked_objects'[k]) = Accepted[i]
               /\ \A i \in 1..Len(Accepted) :
                     Cardinality({ k \in DOMAIN tracked_objects' :
                                     /\ CurrentPosition(tracked_objects'[k]) = Accepted[i]
                                     /\ \/ k \notin DOMAIN tracked_objects
                                        \/ tracked_objects'[k].frames_tracked
                                              /= tracked_objects[k].frames_tracked }) <= 1
    ]_vars

\* both positions of a batch of two have gone to objects that existed before
C29_Witness ==
    /\ last_call.op = "update_detections"
    /\ detector.detections = << Pt(36), Pt(32) >>
    /\ \E k, j \in DOMAIN tracked_objects :
          /\ k /= j
          /\ tracked_objects[k].frames_tracked >= 2
          /\ tracked_objects[j].frames_tracked >= 2
          /\ CurrentPosition(tracked_objects[k]) = ObjectPosition(Pt(36), now)
          /\ CurrentPosition(tracked_objects[j]) = ObjectPosition(Pt(32), now)

\* the index in the batch of the position object k received in the call, 0 if none
Taken(k) ==
    IF tracked_objects'[k].frames_tracked = tracked_objects[k].frames_tracked THEN 0
    ELSE CHOOSE i \in 1..Len(Accepted) : Accepted[i] = CurrentPosition(tracked_objects'[k])

\* the positions no object with a lower id has received
Free(k) == { i \in 1..Len(Accepted) : \A j \in Surviving : j < k => Taken(j) /= i }

Gap(k, i) == DistanceSq(Accepted[i], CurrentPosition(tracked_objects[k]))

\* C30: in one update_detections call every object, in ascending order of id,
\* receives the position nearest to its last one among those no object with a
\* lower id has received, the first of the batch at equal distance, provided it
\* is inside the gate; an object with no such position inside the gate
\* receives nothing.
C30_NearestInsideGate ==
    [][ last_call'.op = "update_detections"
            => \A k \in Surviving :
                  IF Taken(k) = 0
                  THEN \A i \in Free(k) : Gap(k, i) >= MatchGateSq
                  ELSE /\ Taken(k) \in Free(k)
                       /\ Gap(k, Taken(k)) < MatchGateSq
                       /\ \A i \in Free(k) :
                             \/ Gap(k, Taken(k)) < Gap(k, i)
                             \/ (Gap(k, Taken(k)) = Gap(k, i) /\ Taken(k) <= i) ]_vars

\* an object at 30 has been offered two positions 5 away and has received the
\* first one, while an object at 38 has refused the other, 13 away
C30_Witness ==
    /\ last_call.op = "update_detections"
    /\ detector.detections = << Pt(35), Pt(25) >>
    /\ \E k, j \in DOMAIN tracked_objects :
          /\ k < j
          /\ Len(tracked_objects[k].positions) >= 2
          /\ tracked_objects[k].positions[Len(tracked_objects[k].positions) - 1].cx = 30
          /\ CurrentPosition(tracked_objects[k]) = ObjectPosition(Pt(35), now)
          /\ CurrentPosition(tracked_objects[j]).cx = 38

(***************************************************************************)
(* Specification SpecFilter: detections on and beyond the confidence and   *)
(* size limits of the filter of update_detections.                         *)
(***************************************************************************)
FilterDetections ==
    { Det(20, 50, 10, 10, 50),      \* confidence on the threshold, area on the minimum
      Det(40, 50, 10, 10, 49),      \* confidence below the threshold
      Det(60, 50, 9, 11, 90),       \* area 0.0099, below the minimum
      Det(50, 50, 80, 100, 90),     \* area on the maximum
      Det(50, 80, 81, 100, 90) }    \* area 0.81, above the maximum

FilterBatches ==
    { << d >> : d \in FilterDetections }
      \cup { << Det(40, 50, 10, 10, 49), Det(20, 50, 10, 10, 50) >>,
             << Det(50, 50, 80, 100, 90), Det(60, 50, 9, 11, 90) >> }

FilterInit == InitWith(DefaultConfig)

FilterReceiveDetections ==
    \E detections \in FilterBatches :
        /\ last_call.op /= "detections_received"
        /\ total_detections_processed + Len(detections) <= FilterMaxDetections
        /\ ReceiveDetections(detections)

FilterAdvanceTime ==
    /\ last_call.op /= "detections_received"
    /\ now < Epoch + FilterMaxTime
    /\ AdvanceTime

FilterNext == FilterReceiveDetections \/ ApplyDetections \/ FilterAdvanceTime

SpecFilter == FilterInit /\ [][FilterNext]_vars

\* the confidence and the area are inside the limits, the limits included
WithinLimits(p, cfg) ==
    /\ p.confidence >= cfg.min_confidence_threshold
    /\ p.width * p.height >= cfg.min_object_size
    /\ p.width * p.height <= cfg.max_object_size

\* C31: after update_detections every stored position has its confidence and
\* its area inside the limits, and (when the object limit is not in the way)
\* every detection of the batch inside the limits, those exactly on a limit
\* included, is the newest position of some object.
C31_FilterLimitsInclusive ==
    [][ last_call'.op = "update_detections"
            => /\ \A k \in DOMAIN tracked_objects' :
                     \A i \in 1..Len(tracked_objects'[k].positions) :
                         WithinLimits(tracked_objects'[k].positions[i], multi_config)
               /\ last_call'.accepted
                     = Cardinality({ i \in 1..Len(detector.detections) :
                                        WithinLimits(detector.detections[i], multi_config) })
               /\ \A i \in 1..Len(detector.detections) :
                     (/\ WithinLimits(detector.detections[i], multi_config)
                      /\ Cardinality(DOMAIN tracked_objects) + Len(detector.detections)
                             <= multi_config.max_objects_to_track)
                         => \E k \in DOMAIN tracked_objects' :
                               CurrentPosition(tracked_objects'[k])
                                   = ObjectPosition(detector.detections[i], now) ]_vars

\* a batch with a detection below the threshold and one exactly on the threshold
\* and on the minimum area has been applied, and the second is tracked
C31_Witness ==
    /\ last_call.op = "update_detections"
    /\ detector.detections = << Det(40, 50, 10, 10, 49), Det(20, 50, 10, 10, 50) >>
    /\ last_call.accepted = 1
    /\ \E k \in DOMAIN tracked_objects :
          CurrentPosition(tracked_objects[k]) = ObjectPosition(Det(20, 50, 10, 10, 50), now)

(***************************************************************************)
(* Specification SpecBand: the zoom controller on one object whose area    *)
(* is on, inside and outside the limits of the deadband.                   *)
(***************************************************************************)
BandDetections ==
    { Det(50, 50, 10, 10, 90),      \* area 0.01, below the band
      Det(50, 50, 40, 50, 90),      \* area 0.20, the lower limit of the band
      Det(50, 50, 50, 60, 90),      \* area 0.30, the upper limit of the band
      Det(50, 50, 60, 60, 90) }     \* area 0.36, above the band

BandInit == InitWith(DefaultConfig)

BandUpdateDetections ==
    \E det \in BandDetections :
        /\ total_detections_processed < BandMaxDetections
        /\ UpdateDetections(<< det >>)

BandTick == \E w \in 1..Len(threads) : successful_tracks < BandMaxMoves /\ Tick(w)

BandStartTracking == Len(threads) < BandMaxThreads /\ StartTracking

BandNext == BandUpdateDetections \/ BandTick \/ BandStartTracking

SpecBand == BandInit /\ [][BandNext]_vars

\* the area ratio lies in [0.8, 1.2] * target_object_ratio
InDeadband(object_ratio, cfg) ==
    /\ object_ratio * 10 >= cfg.target_object_ratio * 8
    /\ object_ratio * 10 <= cfg.target_object_ratio * 12

\* C32: a tick dispatches a zoom command (AbsoluteMove) only if the target zoom
\* level differs from the zoom level before the tick by more than 0.05, and a
\* tick whose target has its area ratio inside the deadband, the limits included,
\* leaves the target zoom level unchanged.
C32_ZoomHysteresisAndDeadband ==
    [][ last_call'.op = "tick"
            => /\ HasCmd(dispatched', {"AbsoluteMove"})
                     => Abs(target_zoom_level' - current_zoom_level) > ZoomHysteresisE4
               /\ (/\ current_target_id' \in DOMAIN tracked_objects'
                   /\ LET p == CurrentPosition(tracked_objects'[current_target_id'])
                      IN InDeadband(p.width * p.height, multi_config))
                     => target_zoom_level' = target_zoom_level ]_vars

\* a tick on a target whose area is exactly the lower limit of the deadband has
\* left the target zoom level where it was and, the remaining difference being
\* under the hysteresis, has sent no zoom command
C32_Witness ==
    /\ last_call.op = "tick"
    /\ current_target_id \in DOMAIN tracked_objects
    /\ LET p == CurrentPosition(tracked_objects[current_target_id])
       IN p.width * p.height * 10 = multi_config.target_object_ratio * 8
    /\ target_zoom_level /= current_zoom_level
    /\ Abs(target_zoom_level - current_zoom_level) <= ZoomHysteresisE4
    /\ ~HasCmd(dispatched, {"AbsoluteMove"})

(***************************************************************************)
(* Properties of SpecZoom: one static object smaller than the deadband.    *)
(***************************************************************************)
\* the engine has only ever tracked object 1, every position of it is the same
\* box, and the area of the box is below the deadband
StaticSmallTarget ==
    /\ DOMAIN tracked_objects = {1}
    /\ next_object_id = 2
    /\ LET ps == tracked_objects[1].positions
       IN \A i \in 1..Len(ps) :
             /\ ps[i].cx = ps[1].cx /\ ps[i].cy = ps[1].cy
             /\ ps[i].width = ps[1].width /\ ps[i].height = ps[1].height
             /\ ps[i].width * ps[i].height * 10 < multi_config.target_object_ratio * 8

\* C33: with a single static target whose area ratio stays below the deadband,
\* the zoom level a tick dispatches is never lower than the zoom level the
\* previous zoom command dispatched.
C33_ZoomNeverDecreases ==
    [][ (/\ last_call'.op = "tick"
         /\ StaticSmallTarget
         /\ zoom_change_count > 0)
            => \A i \in 1..Len(dispatched') :
                  dispatched'[i].cmd = "AbsoluteMove"
                      => dispatched'[i].x >= current_zoom_level ]_vars

(***************************************************************************)
(* Specification SpecMoves: the worker follows one object for more ticks   *)
(* than the command history holds.                                         *)
(***************************************************************************)
MovesInit == InitWith(DefaultConfig)

MovesUpdateDetections ==
    /\ total_detections_processed < MovesMaxDetections
    /\ UpdateDetections(<< DetA >>)

MovesTick == \E w \in 1..Len(threads) : successful_tracks < MovesMaxMoves /\ Tick(w)

MovesStartTracking == Len(threads) < MovesMaxThreads /\ StartTracking

MovesAdvanceTime == now < Epoch + MovesMaxTime /\ AdvanceTime

MovesNext == MovesUpdateDetections \/ MovesTick \/ MovesStartTracking \/ MovesAdvanceTime

SpecMoves == MovesInit /\ [][MovesNext]_vars

\* C34: the command history never holds more than 100 entries after a tick; a
\* tick that sends a command appends its entry, and when that makes 101 entries
\* the history becomes the last 50 of them, in the order they had.
C34_CommandHistoryBounded ==
    /\ [](Len(ptz_movement_history) <= 100)
    /\ [][ (last_call'.op = "tick" /\ successful_tracks' = successful_tracks + 1)
              => LET newest == ptz_movement_history'[Len(ptz_movement_history')]
                     grown == Append(ptz_movement_history, newest)
                 IN /\ Len(ptz_movement_history') >= 1
                    /\ newest.timestamp = now
                    /\ ptz_movement_history'
                          = IF Len(grown) <= 100 THEN grown
                            ELSE SubSeq(grown, Len(grown) - 49, Len(grown)) ]_vars

\* 101 commands have been sent: the history was cut to 50 entries, and its oldest
\* entry is older than its newest one
C34_Witness ==
    /\ last_call.op = "tick"
    /\ successful_tracks = 101
    /\ Len(ptz_movement_history) = 50
    /\ ptz_movement_history[1].timestamp < ptz_movement_history[50].timestamp

(***************************************************************************)
(* Specification SpecAbsorb: iterations of the control loop that raise,    *)
(* while the detection thread adds and prunes objects step by step and the *)
(* caller starts and stops the engine.                                     *)
(***************************************************************************)
AbsorbBatches == { << >>, << DetA >>, << DetA, DetB >> }

AbsorbInit == InitWith(TwoObjectConfig)

AbsorbDetectStart ==
    \E detections \in AbsorbBatches :
        /\ total_detections_processed + Len(detections) <= AbsorbMaxDetections
        /\ DetectStart(detections)

AbsorbTick ==
    \E w \in 1..Len(threads) :
        successful_tracks + failed_tracks < AbsorbMaxMoves /\ Tick(w)

AbsorbTickRaises ==
    \E w \in 1..Len(threads) :
        successful_tracks + failed_tracks < AbsorbMaxMoves /\ TickRaises(w)

AbsorbWorkerExit == \E w \in 1..Len(threads) : WorkerExit(w)

AbsorbStartTracking == Len(threads) < AbsorbMaxThreads /\ StartTracking

AbsorbAdvanceTime == now < Epoch + AbsorbMaxTime /\ AdvanceTime

AbsorbNext ==
    \/ AbsorbDetectStart
    \/ PruneDelete
    \/ PruneClear
    \/ AbsorbTick
    \/ AbsorbTickRaises
    \/ AbsorbWorkerExit
    \/ AbsorbStartTracking
    \/ StopTracking
    \/ StopTrackingReturn
    \/ AbsorbAdvanceTime

SpecAbsorb == AbsorbInit /\ [][AbsorbNext]_vars

\* C35: a worker is still in its loop after an iteration that raised, and a worker
\* ends only when stop_tracking has set the stop event or cleared tracking_active.
C35_WorkerSurvivesErrors ==
    [][ \A w \in 1..Len(threads) :
           /\ (last_call'.op = "tick_raises" /\ last_call'.thread = w)
                 => threads'[w].pc = "loop"
           /\ (threads[w].pc /= "done" /\ threads'[w].pc = "done")
                 => (stop_tracking_event \/ ~tracking_active) ]_vars

\* an iteration has raised while the detection thread was in the middle of
\* pruning, the engine is still tracking and the worker is back at the loop test
C35_Witness ==
    /\ last_call.op = "tick_raises"
    /\ detector.pc = "deleted"
    /\ tracking_active /\ ~stop_tracking_event
    /\ threads[last_call.thread].pc = "loop"

(***************************************************************************)
(* Properties of SpecAlt: the switch statistic and the switch event.       *)
(***************************************************************************)
\* C36: in every step switch_count grows by the number of target_switched events
\* the step emits, and it is left alone by a step that leaves the current target
\* as it was.
C36_SwitchCountCountsSwitches ==
    [][ /\ switch_count' = switch_count + Cardinality(SwitchEvents(emitted'))
        /\ current_target_id' = current_target_id => switch_count' = switch_count ]_vars

\* C37: the old and the new target of every target_switched event differ.
C37_SwitchEventChangesTarget ==
    [][ \A i \in SwitchEvents(emitted') : emitted'[i].a /= emitted'[i].b ]_vars

(***************************************************************************)
(* Properties of Spec: the primary flag and the current target.            *)
(***************************************************************************)
\* C38: after update_detections, a loop iteration, start_tracking and
\* stop_tracking have completed, the objects flagged is_primary_target are
\* exactly the object whose id is current_target_id (none when it is None).
C38_FlagMatchesTarget ==
    [][ last_call'.op \in { "update_detections", "tick", "start_tracking",
                            "stop_tracking_return" }
            => OnlyPrimary(tracked_objects', current_target_id') ]_vars

(***************************************************************************)
(* Properties of SpecLife: the number of workers.                          *)
(***************************************************************************)
\* C39: after every step at most one worker thread of the engine has not ended, and
\* start_tracking on an engine that is already active returns False and starts
\* no thread.
C39_AtMostOneWorker ==
    [][ /\ Cardinality({ w \in 1..Len(threads') : threads'[w].pc /= "done" }) <= 1
        /\ (last_call'.op = "start_tracking" /\ tracking_active)
              => (last_call'.accepted = 0 /\ threads' = threads) ]_vars

(***************************************************************************)
(* Specification SpecDwell: alternation between objects of which one is    *)
(* no longer detected while another one appears, so that two objects or    *)
(* more are tracked all the time.                                          *)
(***************************************************************************)
DwellBatches == { << DetA, DetB >>, << DetB, DetC >> }

DwellInit == InitWith(DefaultConfig)

DwellUpdateDetections ==
    \E detections \in DwellBatches :
        /\ total_detections_processed + Len(detections) <= DwellMaxDetections
        /\ UpdateDetections(detections)

DwellTick == \E w \in 1..Len(threads) : successful_tracks < DwellMaxMoves /\ Tick(w)

DwellStartTracking == Len(threads) < DwellMaxThreads /\ StartTracking

DwellAdvanceTime == now < Epoch + DwellMaxTime /\ AdvanceTime

DwellNext == DwellUpdateDetections \/ DwellTick \/ DwellStartTracking \/ DwellAdvanceTime

SpecDwell == DwellInit /\ [][DwellNext]_vars

\* C40: a loop iteration that finds the engine in following-secondary mode with
\* the dwell expired and two or more objects tracked changes the current target
\* or returns to following-primary mode.  (An iteration that does neither leaves
\* the engine in the same mode with the same target and the same remembered
\* primary, so that every later dwell period ends in the same way.)
C40_AlternationNotStuck ==
    [][ (/\ last_call'.op = "tick"
         /\ multi_config.alternating_enabled
         /\ Cardinality(DOMAIN tracked_objects) >= 2
         /\ current_target_id \in DOMAIN tracked_objects
         /\ ~is_following_primary
         /\ now - current_follow_start_time >= multi_config.secondary_follow_time
         /\ now - last_switch_time >= multi_config.min_switch_interval)
            => \/ current_target_id' /= current_target_id
               \/ is_following_primary' ]_vars

====
